---------------------------- MODULE Spec2Model ----------------------------
(***************************************************************************)
(* GengarDB storage core: the page codec (pkg/storage/page.go), the        *)
(* slotted page overlay (pkg/storage/slotted.go), the heap file            *)
(* (pkg/storage/heapfile.go) and the B-tree index (package index).         *)
(*                                                                         *)
(* Pages are scaled down: PageSize is a model bound, every other layout    *)
(* number is the program's.  Go indexes from 0, TLA+ sequences from 1:     *)
(* byte i of a Go slice is element i+1 of the sequence that models it.     *)
(* A uint32 checksum is kept as its two 16 bit halves.                     *)
(***************************************************************************)
EXTENDS Integers, Sequences, FiniteSets, TLC

VARIABLES
    pfile,      \* page codec: the bytes of the file
    pwritten,   \* page codec: id -> the page last written successfully
    plast,      \* page codec: the last operation and its outcome
    hfile,      \* heap: the bytes of the heap file
    hlog,       \* heap: the successful inserts so far, in order
    hdeleted,   \* heap: the rids deleted successfully so far
    hlast,      \* heap: the last operation and its outcome
    tfile,      \* B-tree: the pages of the index file
    rootID,     \* B-tree: BTree.rootID
    tstate,     \* B-tree: "closed", "open", "panicked" once the process died,
                \* "failed" once an Insert returned an I/O error
    tins,       \* B-tree: key -> rid of every Insert that returned nil
    tlast,      \* B-tree: the last operation and its outcome
    mpage,      \* in memory: a Page the caller works on directly
    mlog,       \* in memory: the slotted inserts tried on mpage, in order
    mlast,      \* in memory: the last operation on mpage and its outcome
    rfile,      \* race: the bytes of the heap file two writers share
    writers,    \* race: writer -> where it is in its Insert and what it holds
    rlog,       \* race: the Inserts that have returned, in order
    rclock      \* race: the number of steps taken

vars == <<pfile, pwritten, plast, hfile, hlog, hdeleted, hlast,
          tfile, rootID, tstate, tins, tlast, mpage, mlog, mlast,
          rfile, writers, rlog, rclock>>

pvars == <<pfile, pwritten, plast>>
hvars == <<hfile, hlog, hdeleted, hlast>>
tvars == <<tfile, rootID, tstate, tins, tlast>>
mvars == <<mpage, mlog, mlast>>
rvars == <<rfile, writers, rlog, rclock>>

---------------------------------------------------------------------------
(* Layout numbers.                                                         *)

PageSize == 34
HeaderSize == 10
PayloadSize == PageSize - HeaderSize
ByteMax == 255
Uint16Mod == 65536

spHeaderSize == 6
slotEntrySize == 4

Min(a, b) == IF a < b THEN a ELSE b

Zeros(n) == [i \in 1..n |-> 0]

\* The element of a one-element set.
The(S) == CHOOSE x \in S : TRUE

---------------------------------------------------------------------------
(* encoding/binary, little endian.                                         *)

PutUint16(v) == <<v % 256, (v \div 256) % 256>>

Uint16(b) == b[1] + 256 * b[2]

PutUint32(v) == <<v % 256, (v \div 256) % 256, (v \div 65536) % 256,
                  (v \div 16777216) % 256>>

Uint32(b) == b[1] + 256 * b[2] + 65536 * b[3] + 16777216 * b[4]

---------------------------------------------------------------------------
(* hash/crc32.ChecksumIEEE: the reflected polynomial 0xEDB88320, table     *)
(* driven, one byte at a time.  TLC's integers are 32 bit signed, so the   *)
(* running uint32 is kept as its four bytes, least significant first, and  *)
(* a finished checksum as its two 16 bit halves.                           *)

Bit32 == 0..31

PolyBits == {5, 8, 9, 15, 19, 20, 21, 23, 24, 26, 27, 29, 30, 31}

IEEE == [i \in Bit32 |-> IF i \in PolyBits THEN 1 ELSE 0]

Xor32(a, b) == [i \in Bit32 |-> (a[i] + b[i]) % 2]

Shr32(a, n) == [i \in Bit32 |-> IF i + n <= 31 THEN a[i + n] ELSE 0]

ByteBits(b) == [i \in Bit32 |-> IF i <= 7 THEN (b \div (2 ^ i)) % 2 ELSE 0]

LowByte(a) == a[0] + 2 * a[1] + 4 * a[2] + 8 * a[3] + 16 * a[4] + 32 * a[5]
              + 64 * a[6] + 128 * a[7]

\* One table entry: the byte pushed through eight shift-and-xor rounds.
RECURSIVE crcRounds(_, _)
crcRounds(c, n) ==
    IF n = 0 THEN c
    ELSE crcRounds(IF c[0] = 1 THEN Xor32(Shr32(c, 1), IEEE) ELSE Shr32(c, 1),
                   n - 1)

TableEntry(b) ==
    LET c == crcRounds(ByteBits(b), 8)
    IN  <<LowByte(c), LowByte(Shr32(c, 8)), LowByte(Shr32(c, 16)),
          LowByte(Shr32(c, 24))>>

RECURSIVE MakeTable(_, _)
MakeTable(lo, hi) ==
    IF lo = hi THEN <<TableEntry(lo)>>
    ELSE MakeTable(lo, (lo + hi) \div 2) \o MakeTable(((lo + hi) \div 2) + 1, hi)

\* The entry of byte b is IEEETable[b + 1].
IEEETable == MakeTable(0, ByteMax)

\* Exclusive or of two bytes, from a table of the exclusive ors of two
\* nibbles: that of a and b is XorNibble[a + 1][b + 1].
XorBits4(a, b) ==
    ((a + b) % 2)
    + 2 * (((a \div 2) + (b \div 2)) % 2)
    + 4 * (((a \div 4) + (b \div 4)) % 2)
    + 8 * (((a \div 8) + (b \div 8)) % 2)

RECURSIVE XorRow(_, _)
XorRow(a, n) == IF n = 0 THEN <<>> ELSE Append(XorRow(a, n - 1), XorBits4(a, n - 1))

RECURSIVE XorRows(_)
XorRows(n) == IF n = 0 THEN <<>> ELSE Append(XorRows(n - 1), XorRow(n - 1, 16))

XorNibble == XorRows(16)

XorNibbles(a, b) ==
    16 * XorNibble[(a \div 16) + 1][(b \div 16) + 1]
    + XorNibble[(a % 16) + 1][(b % 16) + 1]

RECURSIVE XorByteRow(_, _, _)
XorByteRow(a, lo, hi) ==
    IF lo = hi THEN <<XorNibbles(a, lo)>>
    ELSE XorByteRow(a, lo, (lo + hi) \div 2)
         \o XorByteRow(a, ((lo + hi) \div 2) + 1, hi)

RECURSIVE XorByteRows(_, _)
XorByteRows(lo, hi) ==
    IF lo = hi THEN <<XorByteRow(lo, 0, ByteMax)>>
    ELSE XorByteRows(lo, (lo + hi) \div 2)
         \o XorByteRows(((lo + hi) \div 2) + 1, hi)

XorTable == XorByteRows(0, ByteMax)

XorByte(a, b) == XorTable[a + 1][b + 1]

\* One byte: crc = table[byte(crc) ^ b] ^ (crc >> 8).
crcStep(c, b) ==
    LET t == IEEETable[XorByte(c[1], b) + 1]
    IN  <<XorByte(c[2], t[1]), XorByte(c[3], t[2]), XorByte(c[4], t[3]), t[4]>>

\* The bytes data[lo..hi] in turn.  It is written as two halves, the first
\* computed (bound to l) before the second starts, to keep TLC's evaluation
\* shallow.
RECURSIVE crcBytes(_, _, _, _)
crcBytes(c, data, lo, hi) ==
    IF lo > hi THEN c
    ELSE IF lo = hi THEN crcStep(c, data[lo])
    ELSE The({crcBytes(l, data, ((lo + hi) \div 2) + 1, hi) :
                 l \in {crcBytes(c, data, lo, (lo + hi) \div 2)}})

\* crc starts as ^0, takes every byte of the data in turn, and is inverted.
ChecksumIEEE(data) ==
    LET c == crcBytes(<<ByteMax, ByteMax, ByteMax, ByteMax>>, data, 1, Len(data))
    IN  [lo |-> (ByteMax - c[1]) + 256 * (ByteMax - c[2]),
         hi |-> (ByteMax - c[3]) + 256 * (ByteMax - c[4])]

\* binary.LittleEndian.PutUint32 / Uint32 of a checksum kept as two halves.
PutChecksum(c) == <<c.lo % 256, c.lo \div 256, c.hi % 256, c.hi \div 256>>

GetChecksum(b) == [lo |-> b[1] + 256 * b[2], hi |-> b[3] + 256 * b[4]]

---------------------------------------------------------------------------
(* Page codec and file-backed page store (page.go).                        *)

\* A zero-valued Page struct with the given ID.
NewPage(id) ==
    [ID |-> id, Checksum |-> [lo |-> 0, hi |-> 0], DataSize |-> 0,
     Data |-> Zeros(PayloadSize)]

\* p.Data[:p.DataSize] panics when DataSize exceeds the array; callers that
\* can get there check SliceInRange first.
SliceInRange(p) == p.DataSize <= PayloadSize

\* A slip: the last byte of the data is left out of the checksum.
ComputeChecksumShort(p) == ChecksumIEEE(SubSeq(p.Data, 1, p.DataSize - 1))

ComputeChecksum(p) == ChecksumIEEE(SubSeq(p.Data, 1, p.DataSize))

\* A slip: the bytes are copied but the rest of the payload is not cleared.
SetDataKeepTail(p, b) ==
    IF Len(b) > PayloadSize
    THEN [err |-> "ErrDataTooLarge", page |-> p]
    ELSE [err |-> "nil",
          page |-> [p EXCEPT !.DataSize = Len(b) % Uint16Mod,
                             !.Data = [i \in 1..PayloadSize |->
                                          IF i <= Len(b) THEN b[i] ELSE p.Data[i]]]]

SetData(p, b) ==
    IF Len(b) > PayloadSize
    THEN [err |-> "ErrDataTooLarge", page |-> p]
    ELSE [err |-> "nil",
          page |-> [p EXCEPT !.DataSize = Len(b) % Uint16Mod,
                             !.Data = [i \in 1..PayloadSize |->
                                          IF i <= Len(b) THEN b[i] ELSE 0]]]

\* A slip: pages packed by payload size, so that each overlaps the next.
pageOffsetPayload(id) == id * PayloadSize

pageOffset(id) == id * PageSize

\* os.File.WriteAt: the file grows, zero filled, up to the end of the write.
WriteAt(f, buf, off) ==
    [i \in 1..(IF off + Len(buf) > Len(f) THEN off + Len(buf) ELSE Len(f)) |->
        IF i > off /\ i <= off + Len(buf) THEN buf[i - off]
        ELSE IF i <= Len(f) THEN f[i] ELSE 0]

\* os.File.ReadAt of n bytes: an error (io.EOF) unless all n are there.
ReadAtOk(f, n, off) == off + n <= Len(f)

ReadAt(f, n, off) == SubSeq(f, off + 1, off + n)

\* The page as WritePage lays it out on disk.
EncodePage(p) ==
    PutUint32(p.ID) \o PutChecksum(p.Checksum) \o PutUint16(p.DataSize)
    \o p.Data

\* WritePage: the error, the file afterwards and the caller's page (its
\* Checksum field is set through the pointer).
WritePage(f, p) ==
    IF p.DataSize > PayloadSize
    THEN [err |-> "ErrDataTooLarge", file |-> f, page |-> p]
    ELSE LET q == [p EXCEPT !.Checksum = ComputeChecksum(p)]
         IN  [err |-> "nil", file |-> WriteAt(f, EncodePage(q), pageOffset(q.ID)),
              page |-> q]

DecodePage(buf) ==
    [ID |-> Uint32(SubSeq(buf, 1, 4)),
     Checksum |-> GetChecksum(SubSeq(buf, 5, 8)),
     DataSize |-> Uint16(SubSeq(buf, 9, 10)),
     Data |-> SubSeq(buf, HeaderSize + 1, PageSize)]

\* ReadPage: "panic" is the slice bounds panic of ComputeChecksum.
ReadPage(f, id) ==
    IF ~ReadAtOk(f, PageSize, pageOffset(id))
    THEN [err |-> "EOF", page |-> NewPage(0)]
    ELSE LET p == DecodePage(ReadAt(f, PageSize, pageOffset(id)))
         IN  IF ~SliceInRange(p) THEN [err |-> "panic", page |-> p]
             ELSE IF ComputeChecksum(p) # p.Checksum
                  THEN [err |-> "ErrChecksumMismatch", page |-> p]
                  ELSE [err |-> "nil", page |-> p]

---------------------------------------------------------------------------
(* Bounds of the page codec runs.                                          *)

MaxPageID == 1
MaxData == 2

PageIDs == 0..MaxPageID

DataBytes == {0, 1}

RECURSIVE SeqsUpTo(_, _)
SeqsUpTo(S, n) ==
    IF n = 0 THEN {<<>>}
    ELSE LET shorter == SeqsUpTo(S, n - 1)
         IN  shorter \cup {Append(b, x) : b \in {c \in shorter : Len(c) = n - 1},
                                          x \in S}

\* The buffers handed to SetData: short ones, and one byte too many.
Buffers == SeqsUpTo(DataBytes, MaxData) \cup {Zeros(PayloadSize + 1)}

\* The DataSize a caller leaves in the page before WritePage: what SetData
\* set, a prefix of it, the whole payload (as the slotted and index layers
\* set it), or one more than fits.
DataSizes(b) == (0..Len(b)) \cup {PayloadSize, PayloadSize + 1}

---------------------------------------------------------------------------
(* The state after construction: three empty files, nothing done yet.      *)

NoRID == [PageID |-> 0, SlotID |-> 0]

\* The goroutines that call Insert on one heap file.
Writers == {1, 2}

\* A writer that is not in an Insert.
Idle == [pc |-> "idle", rec |-> <<>>, n |-> 0, id |-> 0, page |-> NewPage(0),
         start |-> 0, read |-> 0]

Init ==
    /\ pfile = <<>>
    /\ pwritten = <<>>
    /\ plast = [op |-> "none", id |-> 0, pos |-> 0, err |-> "nil"]
    /\ hfile = <<>>
    /\ hlog = <<>>
    /\ hdeleted = {}
    /\ hlast = [op |-> "none", rec |-> <<>>, rid |-> NoRID, err |-> "nil",
                n |-> 0, writes |-> <<>>]
    /\ tfile = <<>>
    /\ rootID = 0
    /\ tstate = "closed"
    /\ tins = <<>>
    /\ tlast = [op |-> "none", key |-> 0, rid |-> NoRID, err |-> "nil",
                n |-> 0, root |-> 0, writes |-> <<>>]
    /\ mpage = NewPage(0)
    /\ mlog = <<>>
    /\ mlast = [op |-> "none", err |-> "nil", before |-> NewPage(0),
                buf |-> <<>>, len |-> 0, slot |-> 0]
    /\ rfile = <<>>
    /\ writers = [w \in Writers |-> Idle]
    /\ rlog = <<>>
    /\ rclock = 0

---------------------------------------------------------------------------
(* Page codec operations, as the tests of page_test.go drive them.         *)

\* var p Page; p.ID = id; p.SetData(b); p.DataSize = ds; WritePage(f, &p)
PWritePage(id, b, ds) ==
    \E sd \in {SetData(NewPage(id), b)} :
        IF sd.err # "nil"
        THEN /\ plast' = [op |-> "setdata", id |-> id, pos |-> 0, err |-> sd.err]
             /\ UNCHANGED <<pfile, pwritten, hvars, tvars, mvars, rvars>>
        ELSE \E wr \in {WritePage(pfile, [sd.page EXCEPT !.DataSize = ds])} :
                 /\ pfile' = wr.file
                 /\ plast' = [op |-> "write", id |-> id, pos |-> 0, err |-> wr.err]
                 /\ pwritten' = IF wr.err = "nil"
                                THEN [i \in DOMAIN pwritten \cup {id} |->
                                         IF i = id THEN wr.page ELSE pwritten[i]]
                                ELSE pwritten
                 /\ UNCHANGED <<hvars, tvars, mvars, rvars>>

PWrite == \E id \in PageIDs, b \in Buffers : \E ds \in DataSizes(b) :
              PWritePage(id, b, ds)

\* The first write to an empty file.
PFirstWrite == pfile = <<>> /\ PWrite

\* f.WriteAt([]byte{v}, pageOffset(id) + HeaderSize + pos): one stored
\* payload byte, inside the checksummed prefix, is changed behind the
\* codec's back.
PCorruptByte(id, pos, v) ==
    /\ id \in DOMAIN pwritten
    /\ pos < pwritten[id].DataSize
    /\ v # pfile[pageOffset(id) + HeaderSize + pos + 1]
    /\ pfile' = WriteAt(pfile, <<v>>, pageOffset(id) + HeaderSize + pos)
    /\ plast' = [op |-> "corrupt", id |-> id, pos |-> pos, err |-> "nil"]
    /\ UNCHANGED <<pwritten, hvars, tvars, mvars, rvars>>

PCorrupt ==
    /\ plast.op # "corrupt"
    /\ \E id \in DOMAIN pwritten :
           \E pos \in 0..(pwritten[id].DataSize - 1), v \in 0..ByteMax :
               PCorruptByte(id, pos, v)

NextPage == PWrite

SpecPage == Init /\ [][NextPage]_vars

NextCorrupt == PFirstWrite \/ PCorrupt

SpecCorrupt == Init /\ [][NextCorrupt]_vars

---------------------------------------------------------------------------
(* Page codec claims.                                                      *)

\* C9  Page round trip (under SpecPage): whatever WritePage calls came
\* before, ReadPage of an id that was written succeeds and returns the id,
\* the DataSize and the first DataSize payload bytes of the last successful
\* WritePage for that id; pwritten[id] changes only when id itself is
\* written, so a write to another id does not change what is read for id.
C9_PageRoundTrip ==
    \A id \in DOMAIN pwritten :
        LET r == ReadPage(pfile, id)
            w == pwritten[id]
        IN  /\ r.err = "nil"
            /\ r.page.ID = id
            /\ r.page.ID = w.ID
            /\ r.page.DataSize = w.DataSize
            /\ SubSeq(r.page.Data, 1, w.DataSize) = SubSeq(w.Data, 1, w.DataSize)

\* Page 0 holds the bytes 1, 1 and page 1 was written after it.
C9_Witness ==
    /\ DOMAIN pwritten = {0, 1}
    /\ plast.op = "write" /\ plast.err = "nil" /\ plast.id = 1
    /\ pwritten[0].DataSize = 2
    /\ SubSeq(ReadPage(pfile, 0).page.Data, 1, 2) = <<1, 1>>
    /\ pwritten[1].DataSize = PayloadSize

\* C10  Checksum sensitivity (under SpecCorrupt): after a valid WritePage of
\* page id, once any single stored payload byte within the first DataSize
\* bytes has been changed, ReadPage(id) fails with ErrChecksumMismatch.
C10_ChecksumSensitivity ==
    plast.op = "corrupt" => ReadPage(pfile, plast.id).err = "ErrChecksumMismatch"

\* The last byte of a page whose checksum covers the whole payload was
\* changed, to 255.
C10_Witness ==
    /\ plast.op = "corrupt"
    /\ plast.id = 1
    /\ pwritten[1].DataSize = PayloadSize
    /\ plast.pos = PayloadSize - 1
    /\ pfile[pageOffset(1) + PageSize] = ByteMax

---------------------------------------------------------------------------
(* Page.SetData on a page the caller keeps and reuses, as in               *)
(* TestPage_DataTooLarge and TestPage_RoundTrip.                           *)

\* The part of a buffer that a page could hold: what mlast remembers of it.
Kept(b) == SubSeq(b, 1, Min(Len(b), PayloadSize + 1))

\* p.ID = id
MSetID(id) ==
    /\ mpage' = [mpage EXCEPT !.ID = id]
    /\ mlast' = [op |-> "setid", err |-> "nil", before |-> mpage,
                 buf |-> <<>>, len |-> 0, slot |-> 0]
    /\ UNCHANGED <<mlog, pvars, hvars, tvars, rvars>>

\* err := p.SetData(b)
MSetData(b) ==
    \E sd \in {SetData(mpage, b)} :
        /\ mpage' = sd.page
        /\ mlast' = [op |-> "setdata", err |-> sd.err, before |-> mpage,
                     buf |-> Kept(b), len |-> Len(b), slot |-> 0]
        /\ UNCHANGED <<mlog, pvars, hvars, tvars, rvars>>

\* WritePage(f, &p) to a scratch file: what it does to the caller's page
\* (the Checksum field is set through the pointer) is all that is kept.
MStamp ==
    \E wr \in {WritePage(<<>>, mpage)} :
        /\ mpage' = wr.page
        /\ mlast' = [op |-> "write", err |-> wr.err, before |-> mpage,
                     buf |-> <<>>, len |-> 0, slot |-> 0]
        /\ UNCHANGED <<mlog, pvars, hvars, tvars, rvars>>

NextSetData ==
    \/ \E id \in PageIDs : MSetID(id)
    \/ \E b \in Buffers : MSetData(b)
    \/ MStamp

SpecSetData == Init /\ [][NextSetData]_vars

\* C13  Payload-size guard (under SpecSetData): SetData with a buffer longer
\* than PayloadSize returns ErrDataTooLarge and leaves the page (ID,
\* DataSize, Checksum, every payload byte) unchanged; with a buffer of
\* length at most PayloadSize it sets DataSize to the length, copies the
\* bytes and zeroes every payload byte beyond DataSize.
C13_PayloadGuard ==
    mlast.op = "setdata" =>
        IF mlast.len > PayloadSize
        THEN /\ mlast.err = "ErrDataTooLarge"
             /\ mpage = mlast.before
        ELSE /\ mlast.err = "nil"
             /\ mpage.DataSize = mlast.len
             /\ \A i \in 1..PayloadSize :
                    mpage.Data[i] = IF i <= mlast.len THEN mlast.buf[i] ELSE 0

\* A too long buffer was refused on a page that held data and a checksum.
C13_Witness ==
    /\ mlast.op = "setdata"
    /\ mlast.len = PayloadSize + 1
    /\ mlast.before.DataSize = MaxData
    /\ mlast.before.Data[MaxData] = 1
    /\ mlast.before.Checksum # [lo |-> 0, hi |-> 0]
    /\ mlast.before.ID = MaxPageID

---------------------------------------------------------------------------
(* Slotted page overlay (slotted.go): a view over Page.Data.  The header   *)
(* fields are sc (slotCount), fs (freeStart) and fe (freeEnd).             *)

MaxUint16 == Uint16Mod - 1

\* d[off : off+len(b)] = b, for a range inside d.
Poke(d, off, b) ==
    SubSeq(d, 1, off) \o b \o SubSeq(d, off + Len(b) + 1, Len(d))

header(p) ==
    [sc |-> Uint16(SubSeq(p.Data, 1, 2)),
     fs |-> Uint16(SubSeq(p.Data, 3, 4)),
     fe |-> Uint16(SubSeq(p.Data, 5, 6))]

setHeader(p, sc, fs, fe) ==
    [p EXCEPT !.Data = Poke(@, 0, PutUint16(sc) \o PutUint16(fs) \o PutUint16(fe)),
              !.DataSize = PayloadSize]

\* A slip: the record area of a fresh page starts on the header.
InitIfFreshNoHeader(p) ==
    LET h == header(p)
    IN  IF h.sc = 0 /\ h.fs = 0 /\ h.fe = 0
        THEN setHeader(p, 0, 0, PayloadSize)
        ELSE p

InitIfFresh(p) ==
    LET h == header(p)
        q == IF h.sc = 0 /\ h.fs = 0 /\ h.fe = 0
             THEN setHeader(p, 0, spHeaderSize, PayloadSize)
             ELSE p
    IN  IF q.DataSize = 0 THEN [q EXCEPT !.DataSize = PayloadSize] ELSE q

freeSpace(p) ==
    LET h == header(p) IN h.fe - h.fs - h.sc * slotEntrySize

\* index + 1 is computed in uint16.
slotPos(index) == PayloadSize - ((index + 1) % Uint16Mod) * slotEntrySize

\* d[pos : pos+4] of a slot is inside the payload array; slicing panics
\* otherwise.
slotInRange(i) == slotPos(i) >= 0 /\ slotPos(i) + slotEntrySize <= PayloadSize

getSlot(p, i) ==
    IF i >= header(p).sc THEN [err |-> "ErrBadSlotID", off |-> 0, ln |-> 0]
    ELSE IF ~slotInRange(i) THEN [err |-> "panic", off |-> 0, ln |-> 0]
    ELSE [err |-> "nil",
          off |-> Uint16(SubSeq(p.Data, slotPos(i) + 1, slotPos(i) + 2)),
          ln |-> Uint16(SubSeq(p.Data, slotPos(i) + 3, slotPos(i) + 4))]

\* Callers have checked slotInRange(i).
setSlot(p, i, off, ln) ==
    [p EXCEPT !.Data = Poke(@, slotPos(i), PutUint16(off) \o PutUint16(ln))]

\* A slip: freeStart is not advanced, so the next record lands on this one.
SlottedInsertOver(p, rec) ==
    IF freeSpace(p) < Len(rec) + slotEntrySize
    THEN [err |-> "ErrNoSpace", slot |-> 0, page |-> p]
    ELSE LET h == header(p)
             copied == [p EXCEPT !.Data = Poke(@, h.fs, rec)]
             slotted == setSlot(copied, h.sc, h.fs, Len(rec))
         IN  [err |-> "nil", slot |-> h.sc,
              page |-> setHeader(slotted, h.sc + 1, h.fs, h.fe - slotEntrySize)]

\* A slip: the room for the new slot entry is left out of the space test.
SlottedInsertTight(p, rec) ==
    IF Len(rec) > MaxUint16
    THEN [err |-> "ErrDataTooLarge", slot |-> 0, page |-> p]
    ELSE IF freeSpace(p) < Len(rec)
    THEN [err |-> "ErrNoSpace", slot |-> 0, page |-> p]
    ELSE LET h == header(p)
         IN  IF h.fs + Len(rec) > PayloadSize \/ ~slotInRange(h.sc)
             THEN [err |-> "panic", slot |-> 0, page |-> p]
             ELSE LET copied == [p EXCEPT !.Data = Poke(@, h.fs, rec)]
                      slotted == setSlot(copied, h.sc, h.fs, Len(rec))
                  IN  [err |-> "nil", slot |-> h.sc,
                       page |-> setHeader(slotted, h.sc + 1, h.fs + Len(rec),
                                          h.fe - slotEntrySize)]

\* SlottedPage.Insert: the error, the slot id and the page afterwards.
SlottedInsert(p, rec) ==
    IF Len(rec) > MaxUint16
    THEN [err |-> "ErrDataTooLarge", slot |-> 0, page |-> p]
    ELSE IF freeSpace(p) < Len(rec) + slotEntrySize
    THEN [err |-> "ErrNoSpace", slot |-> 0, page |-> p]
    ELSE LET h == header(p)
         IN  IF h.fs > PayloadSize \/ ~slotInRange(h.sc)
             THEN [err |-> "panic", slot |-> 0, page |-> p]
             ELSE LET n == Min(Len(rec), PayloadSize - h.fs)
                      copied == [p EXCEPT !.Data = Poke(@, h.fs, SubSeq(rec, 1, n))]
                      slotted == setSlot(copied, h.sc, h.fs, Len(rec) % Uint16Mod)
                  IN  [err |-> "nil", slot |-> h.sc,
                       page |-> setHeader(slotted,
                                          (h.sc + 1) % Uint16Mod,
                                          (h.fs + Len(rec)) % Uint16Mod,
                                          (h.fe + Uint16Mod - slotEntrySize) % Uint16Mod)]

\* A slip: a slot of length 0 is read as an empty record.
SlottedReadEmpty(p, i) ==
    LET s == getSlot(p, i)
    IN  IF s.err # "nil" THEN [err |-> s.err, data |-> <<>>]
        ELSE IF s.off + s.ln > PayloadSize THEN [err |-> "panic", data |-> <<>>]
        ELSE [err |-> "nil", data |-> SubSeq(p.Data, s.off + 1, s.off + s.ln)]

\* SlottedPage.Read: the error and a copy of the record bytes.
SlottedRead(p, i) ==
    LET s == getSlot(p, i)
    IN  IF s.err # "nil" THEN [err |-> s.err, data |-> <<>>]
        ELSE IF s.ln = 0 THEN [err |-> "ErrSlotDeleted", data |-> <<>>]
        ELSE IF s.off + s.ln > PayloadSize THEN [err |-> "panic", data |-> <<>>]
        ELSE [err |-> "nil", data |-> SubSeq(p.Data, s.off + 1, s.off + s.ln)]

\* A slip: deleting the newest slot gives its directory entry back.
SlottedDeleteReclaim(p, i) ==
    LET s == getSlot(p, i)
        h == header(p)
    IN  IF s.err # "nil" THEN [err |-> s.err, page |-> p]
        ELSE IF i + 1 = h.sc
        THEN [err |-> "nil",
              page |-> setHeader(p, i, h.fs, h.fe + slotEntrySize)]
        ELSE [err |-> "nil", page |-> setSlot(p, i, s.off, 0)]

\* A slip: the offset of the slot is cleared with its length.
SlottedDeleteClear(p, i) ==
    LET s == getSlot(p, i)
    IN  IF s.err # "nil" THEN [err |-> s.err, page |-> p]
        ELSE [err |-> "nil", page |-> setSlot(p, i, 0, 0)]

\* SlottedPage.Delete: the error and the page afterwards.
SlottedDelete(p, i) ==
    LET s == getSlot(p, i)
    IN  IF s.err # "nil" THEN [err |-> s.err, page |-> p]
        ELSE [err |-> "nil", page |-> setSlot(p, i, s.off, 0)]

---------------------------------------------------------------------------
(* One slotted page in memory, driven directly: InitIfFresh, Insert and    *)
(* Delete in any order, starting from a zeroed page.                       *)

MaxInserts == 3
MidLen == 6

\* Record lengths: empty, one byte, a few bytes, what exactly fills a fresh
\* page, one byte more than that, and one more than a uint16 can hold.
SlotLens ==
    {0, 1, MidLen, PayloadSize - spHeaderSize - slotEntrySize,
     PayloadSize - spHeaderSize - slotEntrySize + 1, MaxUint16 + 1}

\* The n bytes of the next record: every byte is the number of the insert.
SlotRecord(n) == [i \in 1..n |-> Len(mlog) + 1]

\* The page carries a slotted header (InitIfFresh has run on it).
Initialized(p) == header(p) # [sc |-> 0, fs |-> 0, fe |-> 0]

\* sp.InitIfFresh()
SInitIfFresh ==
    /\ mpage' = InitIfFresh(mpage)
    /\ mlast' = [op |-> "init", err |-> "nil", before |-> mpage,
                 buf |-> <<>>, len |-> 0, slot |-> 0]
    /\ UNCHANGED <<mlog, pvars, hvars, tvars, rvars>>

\* slot, err := sp.Insert(rec)
SInsert(rec) ==
    /\ Len(mlog) < MaxInserts
    /\ \E r \in {SlottedInsert(mpage, rec)} :
           /\ mpage' = r.page
           /\ mlog' = Append(mlog, [len |-> Len(rec), err |-> r.err,
                                    slot |-> r.slot,
                                    init |-> Initialized(mpage)])
           /\ mlast' = [op |-> "insert", err |-> r.err, before |-> mpage,
                        buf |-> Kept(rec), len |-> Len(rec), slot |-> r.slot]
    /\ UNCHANGED <<pvars, hvars, tvars, rvars>>

\* err := sp.Delete(slot)
SDelete(i) ==
    \E r \in {SlottedDelete(mpage, i)} :
        /\ mpage' = r.page
        /\ mlast' = [op |-> "delete", err |-> r.err, before |-> mpage,
                     buf |-> <<>>, len |-> 0, slot |-> i]
        /\ UNCHANGED <<mlog, pvars, hvars, tvars, rvars>>

NextSlotted ==
    \/ SInitIfFresh
    \/ \E n \in SlotLens : SInsert(SlotRecord(n))
    \/ \E i \in 0..MaxInserts : SDelete(i)

SpecSlotted == Init /\ [][NextSlotted]_vars

RECURSIVE SumNeeds(_, _, _)
\* The total of (len + slotEntrySize) over those of the first n inserts
\* tried whose record is at most longest bytes long.
SumNeeds(log, n, longest) ==
    IF n = 0 THEN 0
    ELSE SumNeeds(log, n - 1, longest)
         + (IF log[n].len <= longest THEN log[n].len + slotEntrySize ELSE 0)

\* Every insert tried so far was tried on an initialized page.
AllInitialized == \A k \in DOMAIN mlog : mlog[k].init

SomeNoSpace == \E k \in DOMAIN mlog : mlog[k].err = "ErrNoSpace"

\* An insert that failed did so with ErrNoSpace or ErrDataTooLarge and left
\* the page's payload, header fields and DataSize as they were.
FailedInsertKeepsPage ==
    (mlast.op = "insert" /\ mlast.err # "nil")
        => /\ mlast.err \in {"ErrNoSpace", "ErrDataTooLarge"}
           /\ mpage.Data = mlast.before.Data
           /\ header(mpage) = header(mlast.before)
           /\ mpage.DataSize = mlast.before.DataSize

\* C11 as stated (under SpecSlotted): when the inserts tried on one
\* initialized page total more than PayloadSize - spHeaderSize in
\* (len + slotEntrySize), records of any length counted, at least one of
\* them failed with ErrNoSpace; and a failed insert leaves the page as it
\* was.
C11_AnyLength ==
    /\ (AllInitialized
        /\ SumNeeds(mlog, Len(mlog), MaxUint16 + 1) > PayloadSize - spHeaderSize)
           => SomeNoSpace
    /\ FailedInsertKeepsPage

\* C11  Slotted capacity bound (under SpecSlotted): when the inserts tried
\* on one initialized page total more than PayloadSize - spHeaderSize in
\* (len + slotEntrySize), counting the records of at most 65535 bytes, at
\* least one of them failed with ErrNoSpace; and an insert that fails
\* (ErrNoSpace or ErrDataTooLarge) leaves the page's payload, header fields
\* and DataSize as they were.
C11_CapacityBound ==
    /\ (AllInitialized
        /\ SumNeeds(mlog, Len(mlog), MaxUint16) > PayloadSize - spHeaderSize)
           => SomeNoSpace
    /\ FailedInsertKeepsPage

\* Two records were stored on an initialized page and a third, which took
\* the total over the bound, was refused.
C11_Witness ==
    /\ Len(mlog) = 3
    /\ AllInitialized
    /\ mlog[1].err = "nil" /\ mlog[2].err = "nil"
    /\ mlast.op = "insert" /\ mlast.err = "ErrNoSpace"
    /\ mlast.len = MidLen
    /\ SumNeeds(mlog, 3, MaxUint16) > PayloadSize - spHeaderSize

---------------------------------------------------------------------------
(* Heap file (heapfile.go): slotted pages back to back in one file.        *)

pageCount(f) == Len(f) \div PageSize

\* The loop of findPageWithSpace from page id on; n is the page count.
RECURSIVE findFrom(_, _, _, _)
findFrom(f, need, id, n) ==
    IF id >= n
    THEN [err |-> "nil", id |-> n, page |-> InitIfFresh(NewPage(n))]
    ELSE LET r == ReadPage(f, id)
         IN  IF r.err # "nil" THEN [err |-> r.err, id |-> 0, page |-> r.page]
             ELSE IF freeSpace(InitIfFresh(r.page)) >= need
                  THEN [err |-> "nil", id |-> id, page |-> InitIfFresh(r.page)]
                  ELSE findFrom(f, need, id + 1, n)

\* A slip: the scan is skipped and every record gets a page of its own.
findPageAlwaysNew(f, need) ==
    [err |-> "nil", id |-> pageCount(f),
     page |-> InitIfFresh(NewPage(pageCount(f)))]

findPageWithSpace(f, need) == findFrom(f, need, 0, pageCount(f))

\* HeapFile.Insert: the error, the rid, the file afterwards and the ids of
\* the pages written, in order.
HeapInsert(f, rec) ==
    LET found == findPageWithSpace(f, Len(rec) + slotEntrySize)
        failed(e) == [err |-> e, rid |-> NoRID, file |-> f, writes |-> <<>>]
    IN  IF found.err # "nil" THEN failed(found.err)
        ELSE LET ins == SlottedInsert(found.page, rec)
             IN  IF ins.err # "nil" THEN failed(ins.err)
                 ELSE LET wr == WritePage(f, ins.page)
                      IN  IF wr.err # "nil" THEN failed(wr.err)
                          ELSE [err |-> "nil",
                                rid |-> [PageID |-> found.id, SlotID |-> ins.slot],
                                file |-> wr.file,
                                writes |-> <<ins.page.ID>>]

\* A slip: the slot is looked up in page 0 whatever the rid's page.
HeapGetPageZero(f, r) ==
    LET rd == ReadPage(f, 0)
    IN  IF rd.err # "nil" THEN [err |-> rd.err, data |-> <<>>]
        ELSE SlottedRead(rd.page, r.SlotID)

\* HeapFile.Get: the error and the record bytes.
HeapGet(f, r) ==
    LET rd == ReadPage(f, r.PageID)
    IN  IF rd.err # "nil" THEN [err |-> rd.err, data |-> <<>>]
        ELSE SlottedRead(rd.page, r.SlotID)

\* HeapFile.Delete: the error, the file afterwards and the pages written.
HeapDelete(f, r) ==
    LET rd == ReadPage(f, r.PageID)
    IN  IF rd.err # "nil" THEN [err |-> rd.err, file |-> f, writes |-> <<>>]
        ELSE LET del == SlottedDelete(rd.page, r.SlotID)
             IN  IF del.err # "nil"
                 THEN [err |-> del.err, file |-> f, writes |-> <<>>]
                 ELSE LET wr == WritePage(f, del.page)
                      IN  [err |-> wr.err, file |-> wr.file,
                           writes |-> IF wr.err = "nil" THEN <<del.page.ID>>
                                      ELSE <<>>]

\* The slot loop of Scan on page id from slot s on.  The visitor returns
\* true for its first keep calls and false for the next one; acc is what it
\* has been called with so far.
RECURSIVE scanSlots(_, _, _, _, _)
scanSlots(p, id, s, acc, keep) ==
    IF s >= header(p).sc THEN [err |-> "nil", visits |-> acc, stop |-> FALSE]
    ELSE LET rd == SlottedRead(p, s)
         IN  IF rd.err = "ErrSlotDeleted" THEN scanSlots(p, id, s + 1, acc, keep)
             ELSE IF rd.err # "nil"
                  THEN [err |-> rd.err, visits |-> acc, stop |-> TRUE]
             ELSE LET seen == Append(acc, [rid |-> [PageID |-> id, SlotID |-> s],
                                           data |-> rd.data])
                  IN  IF Len(seen) > keep
                      THEN [err |-> "nil", visits |-> seen, stop |-> TRUE]
                      ELSE scanSlots(p, id, s + 1, seen, keep)

\* The page loop of Scan from page id on.
RECURSIVE scanPages(_, _, _, _, _)
scanPages(f, id, n, acc, keep) ==
    IF id >= n THEN [err |-> "nil", visits |-> acc]
    ELSE LET rd == ReadPage(f, id)
         IN  IF rd.err # "nil" THEN [err |-> rd.err, visits |-> acc]
             ELSE LET sl == scanSlots(rd.page, id, 0, acc, keep)
                  IN  IF sl.stop THEN [err |-> sl.err, visits |-> sl.visits]
                      ELSE scanPages(f, id + 1, n, sl.visits, keep)

\* A slip: the scan stops after the first page.
HeapScanFirstPage(f, keep) == scanPages(f, 0, Min(1, pageCount(f)), <<>>, keep)

\* A slip: the visitor's answer is ignored and the scan goes on.
HeapScanOn(f, keep) == scanPages(f, 0, pageCount(f), <<>>, Len(f))

\* HeapFile.Scan: the error and the visitor's calls, in order.
HeapScan(f, keep) == scanPages(f, 0, pageCount(f), <<>>, keep)

---------------------------------------------------------------------------
(* Heap operations.  Get and Scan leave the file alone: the claims apply    *)
(* them to the file of each reachable state.                               *)

MaxPages == 2
MaxSlotID == 2

\* Record lengths: empty, one byte, one that no longer fits beside a one
\* byte record, and one too long for any page.
HeapLens == {0, 1, MidLen, PayloadSize - spHeaderSize - slotEntrySize + 1}

\* The record of length n handed to the next Insert: every byte is the
\* number of the insert, so that no two stored records are alike.
HeapRecord(n) == [i \in 1..n |-> Len(hlog) + 1]

\* The rids handed to Delete: of records, of slots not in use and of a page
\* beyond the file.
HeapRIDs ==
    [PageID : 0..(MaxPages - 1), SlotID : 0..MaxSlotID]
    \cup {[PageID |-> MaxPages, SlotID |-> 0]}

HInsert(rec) ==
    \E r \in {HeapInsert(hfile, rec)} :
        /\ pageCount(r.file) <= MaxPages
        /\ hfile' = r.file
        /\ hlog' = IF r.err = "nil"
                   THEN Append(hlog, [rid |-> r.rid, rec |-> rec])
                   ELSE hlog
        /\ hlast' = [op |-> "insert", rec |-> rec, rid |-> r.rid, err |-> r.err,
                     n |-> pageCount(hfile), writes |-> r.writes]
        /\ UNCHANGED <<hdeleted, pvars, tvars, mvars, rvars>>

HDelete(rid) ==
    \E r \in {HeapDelete(hfile, rid)} :
        /\ hfile' = r.file
        /\ hdeleted' = IF r.err = "nil" THEN hdeleted \cup {rid} ELSE hdeleted
        /\ hlast' = [op |-> "delete", rec |-> <<>>, rid |-> rid, err |-> r.err,
                     n |-> pageCount(hfile), writes |-> r.writes]
        /\ UNCHANGED <<hlog, pvars, tvars, mvars, rvars>>

NextHeap ==
    \/ \E n \in HeapLens : HInsert(HeapRecord(n))
    \/ \E rid \in HeapRIDs : HDelete(rid)

SpecHeap == Init /\ [][NextHeap]_vars

---------------------------------------------------------------------------
(* Heap claims (under SpecHeap).                                           *)

\* The rids returned so far are pairwise distinct.
DistinctRIDs ==
    \A i, j \in DOMAIN hlog : i # j => hlog[i].rid # hlog[j].rid

\* The stored bytes of page id.
PageBytes(f, id) == SubSeq(f, pageOffset(id) + 1, pageOffset(id) + PageSize)

\* What a visitor that always returns true is called with.
ScanVisits == HeapScan(hfile, Len(hlog))

\* C4 as stated: with inserts only, Get of every returned rid returns the
\* bytes inserted under it, whatever their length, and distinct inserts
\* return distinct rids.
C4_AnyLength ==
    hdeleted = {} =>
        /\ \A i \in DOMAIN hlog :
               HeapGet(hfile, hlog[i].rid) = [err |-> "nil", data |-> hlog[i].rec]
        /\ DistinctRIDs

\* C4  Heap insert/get round trip, for records that are not empty: Get of
\* every returned rid under which a non-empty record was inserted (and which
\* has not been deleted) returns exactly those bytes; distinct inserts return
\* distinct rids, empty records included.
C4_HeapRoundTrip ==
    /\ \A i \in DOMAIN hlog :
           (Len(hlog[i].rec) > 0 /\ hlog[i].rid \notin hdeleted) =>
               HeapGet(hfile, hlog[i].rid) = [err |-> "nil", data |-> hlog[i].rec]
    /\ DistinctRIDs

\* Four inserts and no delete; non-empty records in two pages, two of them
\* in one page.
C4_Witness ==
    /\ hdeleted = {}
    /\ Len(hlog) = 4
    /\ \E i, j, k \in DOMAIN hlog :
           /\ i # j
           /\ hlog[i].rid.PageID = hlog[j].rid.PageID
           /\ hlog[k].rid.PageID # hlog[i].rid.PageID
           /\ Len(hlog[i].rec) > 0 /\ Len(hlog[j].rec) > 0 /\ Len(hlog[k].rec) > 0

\* C5  Tombstones are permanent: Get of every rid that was deleted fails
\* with ErrSlotDeleted in every later state; an Insert never returns a rid
\* that was deleted; within each page the slot ids are handed out 0, 1, 2,
\* ... in insertion order, and a page's slot count is the number of records
\* ever inserted into it, so it never decreases.
C5_TombstonesPermanent ==
    /\ \A rid \in hdeleted : HeapGet(hfile, rid).err = "ErrSlotDeleted"
    /\ (hlast.op = "insert" /\ hlast.err = "nil") => hlast.rid \notin hdeleted
    /\ \A i \in DOMAIN hlog :
           hlog[i].rid.SlotID =
               Cardinality({j \in 1..(i - 1) :
                               hlog[j].rid.PageID = hlog[i].rid.PageID})
    /\ \A id \in 0..(pageCount(hfile) - 1) :
           header(ReadPage(hfile, id).page).sc =
               Cardinality({i \in DOMAIN hlog : hlog[i].rid.PageID = id})

\* A record is inserted into a page in which a record has been deleted.
C5_Witness ==
    /\ hlast.op = "insert" /\ hlast.err = "nil"
    /\ \E rid \in hdeleted :
           /\ rid.PageID = hlast.rid.PageID
           /\ \E i \in DOMAIN hlog : hlog[i].rid = rid /\ Len(hlog[i].rec) > 0

\* One step leaves the record of entry i of the log as it was: Get returns
\* what it returned, and the slot entry is unchanged.
RecordKept(i) ==
    LET rid == hlog[i].rid
    IN  /\ HeapGet(hfile', rid) = [err |-> "nil", data |-> hlog[i].rec]
        /\ getSlot(ReadPage(hfile', rid.PageID).page, rid.SlotID)
               = getSlot(ReadPage(hfile, rid.PageID).page, rid.SlotID)

\* C6  RID stability: no insert and no delete of another rid changes what
\* Get returns for a non-empty record inserted earlier, nor its slot entry.
C6_RIDStability ==
    [][\A i \in DOMAIN hlog :
           (Len(hlog[i].rec) > 0 /\ hlog[i].rid \notin hdeleted') => RecordKept(i)]_vars

\* A record of the first page is still read back after the file has grown
\* to two pages, a second record has joined it in its page and another
\* record has been deleted.
C6_Witness ==
    /\ pageCount(hfile) = 2
    /\ Len(hlog) >= 3
    /\ hlog[1].rid \notin hdeleted
    /\ hdeleted # {}
    /\ hlog[Len(hlog)].rid.PageID = hlog[1].rid.PageID
    /\ Len(hlog[1].rec) > 0
    /\ HeapGet(hfile, hlog[1].rid).data = hlog[1].rec

\* The entries of the log that a full scan has to visit, given which of
\* them count as stored.
Expected(stored(_)) ==
    {[rid |-> hlog[i].rid, data |-> hlog[i].rec] :
        i \in {j \in DOMAIN hlog : stored(j) /\ hlog[j].rid \notin hdeleted}}

\* The visitor was called exactly once for each element of want, and for
\* nothing else.
VisitedExactly(want) ==
    /\ ScanVisits.err = "nil"
    /\ {ScanVisits.visits[k] : k \in DOMAIN ScanVisits.visits} = want
    /\ Len(ScanVisits.visits) = Cardinality(want)

AnyRecord(i) == TRUE

NonEmptyRecord(i) == Len(hlog[i].rec) > 0

\* C7 as stated: a full scan visits every rid inserted and not deleted,
\* whatever the length of its record.
C7_AnyLength == VisitedExactly(Expected(AnyRecord))

\* C7  Scan completeness, for records that are not empty: a scan whose
\* visitor always returns true calls it exactly once for every rid under
\* which a non-empty record was inserted and which was not deleted, with
\* that record's bytes, and for no other rid (so never for a deleted one).
C7_ScanComplete == VisitedExactly(Expected(NonEmptyRecord))

\* Two pages, a deleted non-empty record, and survivors in both pages.
C7_Witness ==
    /\ pageCount(hfile) = 2
    /\ \E i \in DOMAIN hlog : Len(hlog[i].rec) > 0 /\ hlog[i].rid \in hdeleted
    /\ {v.rid.PageID : v \in Expected(NonEmptyRecord)} = {0, 1}

\* The pages with room for need more bytes, by the free space their stored
\* headers give.
PagesWithRoom(f, need) ==
    {id \in 0..(pageCount(f) - 1) : freeSpace(ReadPage(f, id).page) >= need}

Lowest(S) == CHOOSE x \in S : \A y \in S : x <= y

\* The pages whose stored bytes a step changed or created.
PagesChanged ==
    {id \in 0..(pageCount(hfile') - 1) :
        id >= pageCount(hfile) \/ PageBytes(hfile', id) # PageBytes(hfile, id)}

\* What C8 says of a step that appended entry e to the log.
FirstFit(e) ==
    LET room == PagesWithRoom(hfile, Len(e.rec) + slotEntrySize)
    IN  /\ IF room # {}
           THEN /\ e.rid.PageID = Lowest(room)
                /\ pageCount(hfile') = pageCount(hfile)
           ELSE /\ e.rid.PageID = pageCount(hfile)
                /\ pageCount(hfile') = pageCount(hfile) + 1
        /\ hlast'.writes = <<e.rid.PageID>>
        /\ PagesChanged = {e.rid.PageID}

\* C8  First-fit placement and growth: a successful Insert of a record of
\* length n stores it in the lowest existing page whose free space is at
\* least n + 4 and leaves the page count alone; if there is none it uses a
\* new page whose id is the page count, which then grows by one.  Exactly
\* one page is written.
C8_FirstFit ==
    [][hlog' # hlog => FirstFit(hlog'[Len(hlog')])]_vars

\* A record went into page 0 while page 1 existed, after an insert that had
\* to open page 1 although page 0 was not full.
C8_Witness ==
    /\ hlast.op = "insert" /\ hlast.err = "nil"
    /\ hlast.n = 2 /\ pageCount(hfile) = 2
    /\ hlast.rid.PageID = 0
    /\ \E i \in 1..(Len(hlog) - 1) : hlog[i].rid.PageID = 1

---------------------------------------------------------------------------
(* B-tree index (package index).  An index page is kept decoded: the node  *)
(* header fields and the entry arrays that the encoders lay out in         *)
(* Page.Data.  The decoders read count entries, whatever was stored.  The  *)
(* index file is the sequence of its pages, page id at position id + 1;    *)
(* every page the index writes has DataSize = PayloadSize, and reading one *)
(* back fails only beyond the end of the file.                             *)

kindMeta == 0
kindInternal == 1
kindLeaf == 2

nodeHdrSize == 16
leafEntrySize == 16
internalFirstKid == 4
internalEntSize == 12

\* 0xFFFFFFFF, the "none" of parent and root pointers; TLC's integers end
\* at 2^31 - 1, and no page id of the runs comes near either.
NoPage == -1

\* The payload size of an index page: the smallest with room for two
\* entries in a leaf and two keys in an internal node.
IndexPayloadSize == 48

\* A slip: one entry more than the page has room for.
leafCapacityWide == (IndexPayloadSize - nodeHdrSize) \div leafEntrySize + 1

leafCapacity == (IndexPayloadSize - nodeHdrSize) \div leafEntrySize

internalCapacity ==
    (IndexPayloadSize - nodeHdrSize - internalFirstKid) \div internalEntSize

\* &storage.Page{ID: id}: all zero.
ZeroNode(id) ==
    [ID |-> id, kind |-> kindMeta, count |-> 0, parent |-> 0, aux |-> 0,
     keys |-> <<>>, vals |-> <<>>, kids |-> <<>>]

nodeKind(p) == p.kind

setNodeHeader(p, kind, count, parent, aux) ==
    [p EXCEPT !.kind = kind, !.count = count, !.parent = parent, !.aux = aux]

metaRoot(p) == p.aux

setMetaRoot(p, root) == [p EXCEPT !.aux = root]

\* storage.ReadPage on the index file.
readNode(f, id) ==
    IF id >= 0 /\ id < Len(f) THEN [err |-> "nil", page |-> f[id + 1]]
    ELSE [err |-> "EOF", page |-> ZeroNode(0)]

\* storage.WritePage on the index file: the file grows, zero filled, up to
\* the end of the page.
writeNode(f, p) ==
    [i \in 1..(IF p.ID + 1 > Len(f) THEN p.ID + 1 ELSE Len(f)) |->
        IF i = p.ID + 1 THEN p ELSE IF i <= Len(f) THEN f[i] ELSE ZeroNode(0)]

\* The first n elements stored in a, read as zero where nothing was stored.
Stored(a, n, zero) == [i \in 1..n |-> IF i <= Len(a) THEN a[i] ELSE zero]

leafLeafEntries(p) ==
    [keys |-> Stored(p.keys, p.count, 0), vals |-> Stored(p.vals, p.count, NoRID)]

\* A slice expression or an index beyond the payload array panics.
leafFits(keys) == Len(keys) <= leafCapacity

writeLeaf(p, keys, vals) ==
    IF ~leafFits(keys) \/ Len(vals) < Len(keys) THEN [err |-> "panic", page |-> p]
    ELSE [err |-> "nil",
          page |-> [setNodeHeader(p, kindLeaf, Len(keys) % Uint16Mod, NoPage, 0)
                        EXCEPT !.keys = keys, !.vals = SubSeq(vals, 1, Len(keys)),
                               !.kids = <<>>]]

internalEntries(p) ==
    [keys |-> Stored(p.keys, p.count, 0), kids |-> Stored(p.kids, p.count + 1, 0)]

\* kids[0] and kids[i+1] for every key are indexed: a kids slice shorter
\* than len(keys) + 1 panics, and so does an entry beyond the payload array.
writeInternal(p, keys, kids) ==
    IF Len(kids) < Len(keys) + 1 \/ Len(keys) > internalCapacity
    THEN [err |-> "panic", page |-> p]
    ELSE [err |-> "nil",
          page |-> [setNodeHeader(p, kindInternal, Len(keys) % Uint16Mod, NoPage, 0)
                        EXCEPT !.keys = keys, !.kids = SubSeq(kids, 1, Len(keys) + 1),
                               !.vals = <<>>]]

\* A slip: the page's own id is stored as its first child.
writeInternalRootSelf(p, left, keys, rightKids) ==
    writeInternal(p, keys, <<p.ID>> \o rightKids)

\* kids[0] = left; copy(kids[1:], rightKids)
writeInternalRoot(p, left, keys, rightKids) ==
    writeInternal(p, keys,
                  <<left>> \o [i \in 1..Len(keys) |->
                                  IF i <= Len(rightKids) THEN rightKids[i] ELSE 0])

\* A slip: the new element is appended instead of placed at i.
insertU64Append(a, i, v) == Append(a, v)

insertU64(a, i, v) == SubSeq(a, 1, i) \o <<v>> \o SubSeq(a, i + 1, Len(a))

\* A slip: the id after the given one is stored.
insertU32Next(a, i, v) == SubSeq(a, 1, i) \o <<v + 1>> \o SubSeq(a, i + 1, Len(a))

insertU32(a, i, v) == SubSeq(a, 1, i) \o <<v>> \o SubSeq(a, i + 1, Len(a))

insertRID(a, i, v) == SubSeq(a, 1, i) \o <<v>> \o SubSeq(a, i + 1, Len(a))

\* A slip: the leaf is cut before its last entry, not in the middle.
splitLeafArraysAtLast(keys, vals) ==
    [keys |-> SubSeq(keys, 1, Len(keys) - 1),
     vals |-> SubSeq(vals, 1, Len(vals) - 1),
     rightK |-> SubSeq(keys, Len(keys), Len(keys)),
     rightV |-> SubSeq(vals, Len(vals), Len(vals))]

splitLeafArrays(keys, vals) ==
    LET mid == Len(keys) \div 2
    IN  [keys |-> SubSeq(keys, 1, mid), vals |-> SubSeq(vals, 1, mid),
         rightK |-> SubSeq(keys, mid + 1, Len(keys)),
         rightV |-> SubSeq(vals, mid + 1, Len(vals))]

\* Right side: keys[mid:] and children[mid+1:].
splitInternalArrays(keys, kids) ==
    LET mid == Len(keys) \div 2
    IN  [keys |-> SubSeq(keys, 1, mid), kids |-> SubSeq(kids, 1, mid + 1),
         rightK |-> SubSeq(keys, mid + 1, Len(keys)),
         rightC |-> SubSeq(kids, mid + 2, Len(kids))]

\* allocPage: the id is the page count; nothing is written yet.
allocPage(f, kind) == setNodeHeader(ZeroNode(Len(f)), kind, 0, NoPage, 0)

\* sort.Search(len(keys), pred) between i and j: pred(h) is key < keys[h]
\* when strict, key <= keys[h] otherwise.
RECURSIVE searchFrom(_, _, _, _, _)
searchFrom(keys, key, strict, i, j) ==
    IF i >= j THEN i
    ELSE LET h == (i + j) \div 2
             pred == IF strict THEN key < keys[h + 1] ELSE key <= keys[h + 1]
         IN  IF pred THEN searchFrom(keys, key, strict, i, h)
             ELSE searchFrom(keys, key, strict, h + 1, j)

Search(keys, key, strict) == searchFrom(keys, key, strict, 0, Len(keys))

\* The loop of findLeaf at node id; left counts the iterations still
\* allowed before the descent is given up as endless.
RECURSIVE findLeafFrom(_, _, _, _)
findLeafFrom(f, id, key, left) ==
    LET r == readNode(f, id)
    IN  IF r.err # "nil" THEN r
        ELSE IF nodeKind(r.page) = kindLeaf THEN r
        ELSE IF nodeKind(r.page) # kindInternal
             THEN [err |-> "ErrCorruption", page |-> r.page]
        ELSE IF left = 0 THEN [err |-> "endless", page |-> r.page]
        ELSE LET e == internalEntries(r.page)
             IN  findLeafFrom(f, e.kids[Search(e.keys, key, TRUE) + 1], key, left - 1)

findLeaf(f, nodeID, key) == findLeafFrom(f, nodeID, key, Len(f))

\* findParentAndIndex at node currID.
RECURSIVE findParentFrom(_, _, _, _, _)
findParentFrom(f, currID, childID, key, left) ==
    LET r == readNode(f, currID)
    IN  IF r.err # "nil" THEN [err |-> r.err, page |-> r.page, idx |-> 0]
        ELSE IF nodeKind(r.page) = kindLeaf
             THEN [err |-> "ErrCorruption", page |-> r.page, idx |-> 0]
        ELSE LET e == internalEntries(r.page)
                 hits == {i \in 1..Len(e.kids) : e.kids[i] = childID}
             IN  IF hits # {}
                 THEN [err |-> "nil", page |-> r.page,
                       idx |-> (CHOOSE i \in hits : \A j \in hits : i <= j) - 1]
                 ELSE IF left = 0
                      THEN [err |-> "endless", page |-> r.page, idx |-> 0]
                      ELSE findParentFrom(f, e.kids[Search(e.keys, key, TRUE) + 1],
                                          childID, key, left - 1)

\* A slip: the parent is found, but the child is taken to be its first.
findParentFirstChild(f, currID, childID, key) ==
    [findParentFrom(f, currID, childID, key, Len(f)) EXCEPT !.idx = 0]

findParentAndIndex(f, currID, childID, key) ==
    findParentFrom(f, currID, childID, key, Len(f))

\* What an operation of the index hands back: the error, the file and the
\* in-memory root id afterwards, and the pages written, in order.
Outcome(e, f, root, w) == [err |-> e, file |-> f, root |-> root, writes |-> w]

\* A fault in the file system under one operation: page write number
\* at + 1 of the operation returns an error, from WriteAt (nothing reaches
\* the file) or from Sync (landed: the page is in the file all the same).
NoFault == [at |-> -1, landed |-> FALSE]

\* storage.WritePage(t.f, p) as the next page write of an operation that
\* has made the writes w: the error, the file and the writes afterwards.
\* A slip: a page that WriteAt stored before Sync failed is taken out of
\* the file again.
writePageUndone(f, p, w, fault) ==
    IF fault.at = Len(w)
    THEN [err |-> "EIO", file |-> f,
          writes |-> IF fault.landed THEN Append(w, p) ELSE w]
    ELSE [err |-> "nil", file |-> writeNode(f, p), writes |-> Append(w, p)]

writePage(f, p, w, fault) ==
    IF fault.at = Len(w)
    THEN [err |-> "EIO",
          file |-> IF fault.landed THEN writeNode(f, p) ELSE f,
          writes |-> IF fault.landed THEN Append(w, p) ELSE w]
    ELSE [err |-> "nil", file |-> writeNode(f, p), writes |-> Append(w, p)]

\* A slip: the meta page is pointed at the new root before the new root's
\* page is written.
growRootMetaFirst(f, root, leftID, key, rightID, w, fault) ==
    LET wi == writeInternalRoot(allocPage(f, kindInternal), leftID, <<key>>,
                                <<rightID>>)
        meta == readNode(f, 0)
    IN  IF wi.err # "nil" THEN Outcome(wi.err, f, root, w)
        ELSE IF meta.err # "nil" THEN Outcome(meta.err, f, root, w)
        ELSE LET m == setMetaRoot(meta.page, wi.page.ID)
                 pm == writePage(f, m, w, fault)
             IN  IF pm.err # "nil" THEN Outcome(pm.err, pm.file, root, pm.writes)
                 ELSE LET pr == writePage(pm.file, wi.page, pm.writes, fault)
                      IN  IF pr.err # "nil"
                          THEN Outcome(pr.err, pr.file, root, pr.writes)
                          ELSE Outcome("nil", pr.file, wi.page.ID, pr.writes)

\* A slip: the new root is written and taken as t.rootID, but the meta page
\* is not rewritten.
growRootNoMeta(f, root, leftID, key, rightID, w, fault) ==
    LET wi == writeInternalRoot(allocPage(f, kindInternal), leftID, <<key>>,
                                <<rightID>>)
    IN  IF wi.err # "nil" THEN Outcome(wi.err, f, root, w)
        ELSE LET pr == writePage(f, wi.page, w, fault)
             IN  IF pr.err # "nil" THEN Outcome(pr.err, pr.file, root, pr.writes)
                 ELSE Outcome("nil", pr.file, wi.page.ID, pr.writes)

\* The first branch of insertIntoParent: the node that split was the root.
growRoot(f, root, leftID, key, rightID, w, fault) ==
    LET wi == writeInternalRoot(allocPage(f, kindInternal), leftID, <<key>>,
                                <<rightID>>)
    IN  IF wi.err # "nil" THEN Outcome(wi.err, f, root, w)
        ELSE
        LET pr == writePage(f, wi.page, w, fault)
        IN  IF pr.err # "nil" THEN Outcome(pr.err, pr.file, root, pr.writes)
            ELSE
            LET meta == readNode(pr.file, 0)
            IN  IF meta.err # "nil"
                THEN Outcome(meta.err, pr.file, root, pr.writes)
                ELSE
                LET pm == writePage(pr.file, setMetaRoot(meta.page, wi.page.ID),
                                    pr.writes, fault)
                IN  IF pm.err # "nil"
                    THEN Outcome(pm.err, pm.file, root, pm.writes)
                    ELSE Outcome("nil", pm.file, wi.page.ID, pm.writes)

\* A slip: every split is taken for a split of the root, and the new sibling
\* is hung beside the old root under a new one.
insertIntoParentAbove(f, root, leftID, key, rightID, w, fault) ==
    growRoot(f, root, root, key, rightID, w, fault)

RECURSIVE insertIntoParent(_, _, _, _, _, _, _)
insertIntoParent(f, root, leftID, key, rightID, w, fault) ==
    IF leftID = root THEN growRoot(f, root, leftID, key, rightID, w, fault)
    ELSE
    LET fp == findParentAndIndex(f, root, leftID, key)
    IN  IF fp.err # "nil" THEN Outcome(fp.err, f, root, w)
        ELSE
        LET e == internalEntries(fp.page)
            pkeys == insertU64(e.keys, fp.idx, key)
            kids == insertU32(e.kids, fp.idx + 1, rightID)
        IN  IF Len(pkeys) <= internalCapacity
            THEN LET wi == writeInternal(fp.page, pkeys, kids)
                 IN  IF wi.err # "nil" THEN Outcome(wi.err, f, root, w)
                     ELSE LET pp == writePage(f, wi.page, w, fault)
                          IN  Outcome(pp.err, pp.file, root, pp.writes)
            ELSE
            LET sp == splitInternalArrays(pkeys, kids)
                wl == writeInternal(fp.page, sp.keys, sp.kids)
            IN  IF wl.err # "nil" THEN Outcome(wl.err, f, root, w)
                ELSE
                LET pl == writePage(f, wl.page, w, fault)
                IN  IF pl.err # "nil"
                    THEN Outcome(pl.err, pl.file, root, pl.writes)
                    ELSE
                    LET wr == writeInternal(allocPage(pl.file, kindInternal),
                                            sp.rightK, sp.rightC)
                    IN  IF wr.err # "nil"
                        THEN Outcome(wr.err, pl.file, root, pl.writes)
                        ELSE
                        LET pr == writePage(pl.file, wr.page, pl.writes, fault)
                        IN  IF pr.err # "nil"
                            THEN Outcome(pr.err, pr.file, root, pr.writes)
                            ELSE insertIntoParent(pr.file, root, fp.page.ID,
                                                  sp.rightK[1], wr.page.ID,
                                                  pr.writes, fault)

\* A slip: the duplicate test is left out.
isDupNever(keys, i, key) == FALSE

\* i < len(keys) && keys[i] == key
isDup(keys, i, key) == i < Len(keys) /\ keys[i + 1] = key

\* BTree.Insert on the tree (f, root), under a fault of the file system.
InsertUnder(f, root, key, rid, fault) ==
    LET fl == findLeaf(f, root, key)
    IN  IF fl.err # "nil" THEN Outcome(fl.err, f, root, <<>>)
        ELSE IF nodeKind(fl.page) # kindLeaf
             THEN Outcome("ErrCorruption", f, root, <<>>)
        ELSE
        LET e == leafLeafEntries(fl.page)
            i == Search(e.keys, key, FALSE)
            keys == insertU64(e.keys, i, key)
            vals == insertRID(e.vals, i, rid)
        IN  IF isDup(e.keys, i, key) THEN Outcome("ErrDupKey", f, root, <<>>)
            ELSE IF Len(keys) <= leafCapacity
            THEN LET wl == writeLeaf(fl.page, keys, vals)
                 IN  IF wl.err # "nil" THEN Outcome(wl.err, f, root, <<>>)
                     ELSE LET pl == writePage(f, wl.page, <<>>, fault)
                          IN  Outcome(pl.err, pl.file, root, pl.writes)
            ELSE
            LET sp == splitLeafArrays(keys, vals)
                wl == writeLeaf(fl.page, sp.keys, sp.vals)
            IN  IF wl.err # "nil" THEN Outcome(wl.err, f, root, <<>>)
                ELSE
                LET pl == writePage(f, wl.page, <<>>, fault)
                IN  IF pl.err # "nil"
                    THEN Outcome(pl.err, pl.file, root, pl.writes)
                    ELSE
                    LET wr == writeLeaf(allocPage(pl.file, kindLeaf),
                                        sp.rightK, sp.rightV)
                    IN  IF wr.err # "nil"
                        THEN Outcome(wr.err, pl.file, root, pl.writes)
                        ELSE
                        LET pr == writePage(pl.file, wr.page, pl.writes, fault)
                        IN  IF pr.err # "nil"
                            THEN Outcome(pr.err, pr.file, root, pr.writes)
                            ELSE insertIntoParent(pr.file, root, fl.page.ID,
                                                  sp.rightK[1], wr.page.ID,
                                                  pr.writes, fault)

\* BTree.Insert on the tree (f, root), every page write succeeding.
BTreeInsert(f, root, key, rid) == InsertUnder(f, root, key, rid, NoFault)

\* BTree.Get on the tree (f, root).
BTreeGet(f, root, key) ==
    LET fl == findLeaf(f, root, key)
    IN  IF fl.err # "nil" THEN [err |-> fl.err, rid |-> NoRID, found |-> FALSE]
        ELSE LET e == leafLeafEntries(fl.page)
                 i == Search(e.keys, key, FALSE)
             IN  IF i < Len(e.keys) /\ i >= 0 /\ Len(e.keys) > 0
                    /\ e.keys[i + 1] = key
                 THEN [err |-> "nil", rid |-> e.vals[i + 1], found |-> TRUE]
                 ELSE [err |-> "nil", rid |-> NoRID, found |-> FALSE]

\* A slip: the bootstrap writes the root leaf first and the meta page once,
\* with the root already in it.
BTreeOpenLeafFirst(f) ==
    IF Len(f) = 0
    THEN LET leaf == setNodeHeader(ZeroNode(1), kindLeaf, 0, NoPage, 0)
             meta1 == setNodeHeader(ZeroNode(0), kindMeta, 0, NoPage, 1)
             f1 == writeNode(f, leaf)
         IN  Outcome("nil", writeNode(f1, meta1), 1, <<leaf, meta1>>)
    ELSE LET meta == readNode(f, 0)
         IN  IF meta.err # "nil" THEN Outcome(meta.err, f, 0, <<>>)
             ELSE IF nodeKind(meta.page) # kindMeta
                  THEN Outcome("ErrCorruption", f, 0, <<>>)
             ELSE Outcome("nil", f, metaRoot(meta.page), <<>>)

\* Open on the file f: bootstrap when it is empty, else the root is read
\* from the meta page.
BTreeOpen(f) ==
    IF Len(f) = 0
    THEN LET meta == setNodeHeader(ZeroNode(0), kindMeta, 0, NoPage, 0)
             leaf == setNodeHeader(ZeroNode(1), kindLeaf, 0, NoPage, 0)
             f1 == writeNode(f, meta)
             f2 == writeNode(f1, leaf)
             meta1 == setMetaRoot(meta, 1)
         IN  Outcome("nil", writeNode(f2, meta1), 1, <<meta, leaf, meta1>>)
    ELSE LET meta == readNode(f, 0)
         IN  IF meta.err # "nil" THEN Outcome(meta.err, f, 0, <<>>)
             ELSE IF nodeKind(meta.page) # kindMeta
                  THEN Outcome("ErrCorruption", f, 0, <<>>)
             ELSE Outcome("nil", f, metaRoot(meta.page), <<>>)

---------------------------------------------------------------------------
(* Index operations.  A panic ends the process: the file stays as the      *)
(* writes before it left it, and the index can only be opened again.       *)

MaxKey == 6
MaxIndexPages == 9

TreeKeys == 1..MaxKey

\* The rids handed to Insert with key: one of its own for a key the tree
\* does not hold, that one or another for a key it holds.
TreeRIDs(key) ==
    {[PageID |-> key, SlotID |-> v] :
        v \in IF BTreeGet(tfile, rootID, key).found THEN {0, 1} ELSE {0}}

TOpen ==
    /\ tstate \in {"closed", "panicked"}
    /\ \E r \in {BTreeOpen(tfile)} :
           /\ tfile' = r.file
           /\ rootID' = r.root
           /\ tstate' = IF r.err = "nil" THEN "open" ELSE "closed"
           /\ tlast' = [op |-> "open", key |-> 0, rid |-> NoRID, err |-> r.err,
                        n |-> Len(tfile), root |-> rootID, writes |-> r.writes]
           /\ UNCHANGED <<tins, pvars, hvars, mvars, rvars>>

TInsert(key, rid) ==
    /\ tstate = "open"
    /\ \E r \in {BTreeInsert(tfile, rootID, key, rid)} :
           /\ Len(r.file) <= MaxIndexPages
           /\ tfile' = r.file
           /\ rootID' = r.root
           /\ tstate' = IF r.err = "panic" THEN "panicked" ELSE "open"
           /\ tins' = IF r.err = "nil"
                      THEN [k \in DOMAIN tins \cup {key} |->
                               IF k = key THEN rid ELSE tins[k]]
                      ELSE tins
           /\ tlast' = [op |-> "insert", key |-> key, rid |-> rid, err |-> r.err,
                        n |-> Len(tfile), root |-> rootID, writes |-> r.writes]
           /\ UNCHANGED <<pvars, hvars, mvars, rvars>>

\* An Insert during which a page write fails: it returns the error, and the
\* caller, who has no means to repair the tree, gives the index up.
TInsertFault(key, rid, fault) ==
    /\ tstate = "open"
    /\ \E r \in {InsertUnder(tfile, rootID, key, rid, fault)} :
           /\ r.err = "EIO"
           /\ Len(r.file) <= MaxIndexPages
           /\ tfile' = r.file
           /\ rootID' = r.root
           /\ tstate' = "failed"
           /\ tlast' = [op |-> "insert", key |-> key, rid |-> rid, err |-> r.err,
                        n |-> Len(tfile), root |-> rootID, writes |-> r.writes]
           /\ UNCHANGED <<tins, pvars, hvars, mvars, rvars>>

TClose ==
    /\ tstate = "open"
    /\ tstate' = "closed"
    /\ tlast' = [op |-> "close", key |-> 0, rid |-> NoRID, err |-> "nil",
                 n |-> Len(tfile), root |-> rootID, writes |-> <<>>]
    /\ UNCHANGED <<tfile, rootID, tins, pvars, hvars, mvars, rvars>>

NextBTree ==
    \/ TOpen
    \/ \E key \in TreeKeys : \E rid \in TreeRIDs(key) : TInsert(key, rid)
    \/ TClose

SpecBTree == Init /\ [][NextBTree]_vars

\* The most page writes of one Insert: L, R, and the new root and the meta
\* page or the two halves of the parent.
MaxWrites == 4

Faults == [at : 0..(MaxWrites - 1), landed : BOOLEAN]

NextBTreeIO ==
    \/ NextBTree
    \/ \E key \in TreeKeys, fault \in Faults :
           TInsertFault(key, [PageID |-> key, SlotID |-> 0], fault)

SpecBTreeIO == Init /\ [][NextBTreeIO]_vars

---------------------------------------------------------------------------
(* Index claims (under SpecBTree).                                         *)

NotFound == [err |-> "nil", rid |-> NoRID, found |-> FALSE]

Found(rid) == [err |-> "nil", rid |-> rid, found |-> TRUE]

\* C1  B-tree point law, as stated: every Insert of a key that is not a
\* duplicate succeeds, and Get returns the rid inserted for every key that
\* was inserted and not-found for every other key, whatever the number of
\* keys (with these capacities five keys overflow the root's internal node).
C1_PointLaw ==
    /\ (tlast.op = "insert" /\ tlast.err # "ErrDupKey") => tlast.err = "nil"
    /\ tstate = "open" =>
           \A k \in TreeKeys :
               BTreeGet(tfile, rootID, k) =
                   IF k \in DOMAIN tins THEN Found(tins[k]) ELSE NotFound

\* What C2 says of a step that is an Insert of a key the tree holds.
Rejected(key) ==
    /\ tlast'.err = "ErrDupKey"
    /\ tlast'.writes = <<>>
    /\ tfile' = tfile
    /\ Len(tfile') = Len(tfile)
    /\ rootID' = rootID
    /\ tins' = tins
    /\ BTreeGet(tfile', rootID', key).found
    /\ BTreeGet(tfile', rootID', key) = BTreeGet(tfile, rootID, key)

\* C2  Duplicate rejection: an Insert of a key that is present in the tree
\* (Get finds it), with the same rid or another, returns ErrDupKey, writes
\* no page, leaves the file, its page count and the in-memory root id as
\* they were, and Get still returns the rid the key was stored with.
C2_DuplicateRejected ==
    [][(tlast'.op = "insert" /\ tstate = "open"
        /\ BTreeGet(tfile, rootID, tlast'.key).found) => Rejected(tlast'.key)]_vars

\* A duplicate with another rid was rejected by a tree whose root is an
\* internal node, and Get returns the rid of the first insert.
C2_Witness ==
    /\ tlast.op = "insert" /\ tlast.err = "ErrDupKey"
    /\ tstate = "open"
    /\ tlast.key \in DOMAIN tins
    /\ tlast.rid # tins[tlast.key]
    /\ BTreeGet(tfile, rootID, tlast.key) = Found(tins[tlast.key])
    /\ nodeKind(tfile[rootID + 1]) = kindInternal

Ascending(keys) == \A i, j \in DOMAIN keys : i < j => keys[i] < keys[j]

\* Child i (from 0) of a node with these keys takes the keys from lo(i) up
\* to, not including, hi(i), within the range lo..hi of the node itself.
ChildLo(keys, i, lo) == IF i > 0 THEN keys[i] ELSE lo

ChildHi(keys, i, hi) == IF i < Len(keys) THEN keys[i + 1] ELSE hi

\* The subtree at page id is ordered and holds only keys k with
\* lo <= k < hi; left bounds the depth.
RECURSIVE Ordered(_, _, _, _, _)
Ordered(f, id, lo, hi, left) ==
    /\ id >= 0 /\ id < Len(f)
    /\ left > 0
    /\ LET p == f[id + 1]
       IN  IF nodeKind(p) = kindLeaf
           THEN LET e == leafLeafEntries(p)
                IN  /\ Ascending(e.keys)
                    /\ \A i \in DOMAIN e.keys : lo <= e.keys[i] /\ e.keys[i] < hi
           ELSE LET e == internalEntries(p)
                IN  /\ nodeKind(p) = kindInternal
                    /\ Ascending(e.keys)
                    /\ \A i \in DOMAIN e.keys : lo <= e.keys[i] /\ e.keys[i] < hi
                    /\ \A i \in 0..Len(e.keys) :
                           Ordered(f, e.kids[i + 1], ChildLo(e.keys, i, lo),
                                   ChildHi(e.keys, i, hi), left - 1)

\* The leaves reachable from page id.
RECURSIVE Leaves(_, _, _)
Leaves(f, id, left) ==
    IF id < 0 \/ id >= Len(f) \/ left = 0 THEN {}
    ELSE IF nodeKind(f[id + 1]) = kindLeaf THEN {id}
    ELSE UNION {Leaves(f, internalEntries(f[id + 1]).kids[i], left - 1) :
                   i \in 1..(f[id + 1].count + 1)}

KeysOf(f, id) ==
    {leafLeafEntries(f[id + 1]).keys[i] : i \in 1..f[id + 1].count}

\* C3  Key ordering invariant: in the tree reachable from the root every
\* leaf's and every internal node's keys are strictly ascending, every key
\* in the subtree of child c_i is below k_i and not below k_(i-1), and so
\* each stored key lies in exactly one leaf, the one descent for it reaches.
C3_KeyOrdering ==
    Len(tfile) > 0 =>
        /\ Ordered(tfile, rootID, 0, MaxKey + 1, Len(tfile))
        /\ \A a \in Leaves(tfile, rootID, Len(tfile)) :
               /\ \A k \in KeysOf(tfile, a) :
                      findLeaf(tfile, rootID, k) = [err |-> "nil", page |-> tfile[a + 1]]
               /\ \A b \in Leaves(tfile, rootID, Len(tfile)) :
                      a # b => KeysOf(tfile, a) \cap KeysOf(tfile, b) = {}

\* After an Insert that split a leaf: the root is an internal node with two
\* keys over three leaves, each holding a key.
C3_Witness ==
    /\ tlast.op = "insert" /\ tlast.err = "nil" /\ Len(tlast.writes) = 3
    /\ tstate = "open"
    /\ nodeKind(tfile[rootID + 1]) = kindInternal
    /\ tfile[rootID + 1].count = 2
    /\ Cardinality(Leaves(tfile, rootID, Len(tfile))) = 3
    /\ \A a \in Leaves(tfile, rootID, Len(tfile)) : KeysOf(tfile, a) # {}

---------------------------------------------------------------------------
\* C12  Root pointer persistence (under SpecBTree): after Open and after
\* every Insert that returns, with nil or with ErrDupKey, page 0 of the
\* file is a meta page whose aux is t.rootID; so an Open of the same file
\* gives the same root, and Get gives the same result for every key.
C12_RootPersistence ==
    tstate = "open" =>
        /\ Len(tfile) > 0
        /\ nodeKind(tfile[1]) = kindMeta
        /\ metaRoot(tfile[1]) = rootID
        /\ \E r \in {BTreeOpen(tfile)} :
               /\ r.err = "nil"
               /\ r.file = tfile
               /\ r.root = rootID
               /\ \A key \in TreeKeys :
                      BTreeGet(r.file, r.root, key) = BTreeGet(tfile, rootID, key)

\* An Insert that split the root leaf has returned: the root is a new page.
C12_Witness ==
    /\ tstate = "open"
    /\ tlast.op = "insert"
    /\ tlast.err = "nil"
    /\ rootID # tlast.root
    /\ BTreeGet(tfile, rootID, tlast.key).found

---------------------------------------------------------------------------
RECURSIVE SortedSeq(_)
\* The numbers of S in ascending order.
SortedSeq(S) ==
    IF S = {} THEN <<>> ELSE <<Lowest(S)>> \o SortedSeq(S \ {Lowest(S)})

Range(a) == {a[i] : i \in DOMAIN a}

\* The pages an Insert wrote that are internal nodes and were in the file
\* before it (old), or were allocated by it (new).
InternalWrites(last, old) ==
    {i \in DOMAIN last.writes :
        /\ nodeKind(last.writes[i]) = kindInternal
        /\ (last.writes[i].ID < last.n) = old}

\* Write i of the Insert that is just ending is the update of an internal
\* node that was full: taking the separator makes it overflow.
Overflows(i) ==
    /\ i \in InternalWrites(tlast', TRUE)
    /\ Len(internalEntries(tfile[tlast'.writes[i].ID + 1]).keys) = internalCapacity

\* What C14 wants of the split that write i starts: keys is the node's keys
\* with the separator in place, m the middle position.
SplitsWell(i) ==
    LET P == tlast'.writes[i]
        old == internalEntries(tfile[P.ID + 1])
        keys == SortedSeq(Range(old.keys) \cup {tlast'.writes[2].keys[1]})
        m == Len(keys) \div 2
        left == internalEntries(tfile'[P.ID + 1])
    IN  /\ tlast'.err = "nil"
        /\ left.keys = SubSeq(keys, 1, m)
        /\ Len(left.kids) = m + 1
        /\ \E j \in InternalWrites(tlast', FALSE) :
               LET right == internalEntries(tfile'[tlast'.writes[j].ID + 1])
               IN  /\ right.keys = SubSeq(keys, m + 2, Len(keys))
                   /\ Len(right.kids) = Len(right.keys) + 1

\* C14  Internal-node split (under SpecBTree): when inserting a separator
\* makes an internal node hold more than internalCapacity keys, the Insert
\* completes and leaves two well-formed internal nodes: with m =
\* floor(len/2) the left node keeps keys[0..m) and m + 1 children, keys[m]
\* is promoted and kept by neither node, and the right node holds the keys
\* after it with one more child than keys.
C14_InternalSplit ==
    [][(tlast'.op = "insert" /\ tstate = "open")
        => \A i \in DOMAIN tlast'.writes : Overflows(i) => SplitsWell(i)]_vars

---------------------------------------------------------------------------
\* The last operation was an Open that found the file empty.
Bootstrapped == tlast.op = "open" /\ tlast.n = 0

\* The three page writes of the bootstrap, the first one a meta page with
\* the given parent and aux, and what Open leaves behind.
BootstrapWrites(parent, aux) ==
    /\ tlast.err = "nil"
    /\ Len(tlast.writes) = 3
    /\ tlast.writes[1] = setNodeHeader(ZeroNode(0), kindMeta, 0, parent, aux)
    /\ tlast.writes[2].ID = 1
    /\ nodeKind(tlast.writes[2]) = kindLeaf
    /\ leafLeafEntries(tlast.writes[2]).keys = <<>>
    /\ tlast.writes[3].ID = 0
    /\ nodeKind(tlast.writes[3]) = kindMeta
    /\ metaRoot(tlast.writes[3]) = 1
    /\ rootID = 1
    /\ Len(tfile) = 2

\* C15 as stated (under SpecBTree): Open on an empty file writes page 0 as
\* a meta page with aux 0xFFFFFFFF, then page 1 as an empty leaf, then page
\* 0 again with aux 1, and ends with t.rootID = 1 and two pages.
C15_AuxUnset ==
    Bootstrapped => \E parent \in {0, NoPage} : BootstrapWrites(parent, NoPage)

\* C15  Bootstrap protocol (under SpecBTree): Open on an empty file makes
\* exactly three page writes, in this order: page 0 as a meta page with
\* parent 0xFFFFFFFF and aux 0, page 1 as an empty leaf, page 0 again with
\* aux 1; it ends with t.rootID = 1 and a file of two pages.
C15_Bootstrap == Bootstrapped => BootstrapWrites(NoPage, 0)

\* Open has just bootstrapped an empty file.
C15_Witness ==
    /\ Bootstrapped
    /\ tstate = "open"
    /\ nodeKind(tfile[2]) = kindLeaf
    /\ metaRoot(tfile[1]) = rootID

---------------------------------------------------------------------------
\* The last operation was an Insert that wrote more than one page: it split
\* the leaf.
SplitInsert == tlast.op = "insert" /\ Len(tlast.writes) >= 2

\* The rank of a page write in the order leaf, internal node, meta page.
WriteRank(p) ==
    IF nodeKind(p) = kindLeaf THEN 1
    ELSE IF nodeKind(p) = kindInternal THEN 2 ELSE 3

\* The last Insert moved the root.
RootMoved == tlast.op = "insert" /\ rootID # tlast.root

\* C16  Write ordering within one Insert (under SpecBTreeIO, where a page
\* write may fail): an Insert that splits a leaf writes the trimmed leaf L,
\* then the new leaf R, then the parent update; when the split reaches the
\* root the new root page is written before the meta page is rewritten, and
\* t.rootID changes only after the meta write succeeded.
C16_WriteOrder ==
    /\ SplitInsert =>
           /\ tlast.writes[1].ID < tlast.n
           /\ nodeKind(tlast.writes[1]) = kindLeaf
           /\ tlast.writes[2].ID = tlast.n
           /\ nodeKind(tlast.writes[2]) = kindLeaf
           /\ tlast.key \in Range(leafLeafEntries(tlast.writes[1]).keys)
                            \cup Range(leafLeafEntries(tlast.writes[2]).keys)
           /\ \A i \in 3..Len(tlast.writes) :
                  /\ nodeKind(tlast.writes[i]) # kindLeaf
                  /\ WriteRank(tlast.writes[i - 1]) <= WriteRank(tlast.writes[i])
           /\ tlast.err = "nil" =>
                  /\ Len(tlast.writes) >= 3
                  /\ tlast.writes[2].ID \in Range(internalEntries(tlast.writes[3]).kids)
    /\ tlast.op = "insert" =>
           \A k \in DOMAIN tlast.writes :
               nodeKind(tlast.writes[k]) = kindMeta =>
                   /\ k = Len(tlast.writes)
                   /\ k > 1
                   /\ tlast.writes[k].ID = 0
                   /\ nodeKind(tlast.writes[k - 1]) = kindInternal
                   /\ tlast.writes[k - 1].ID = metaRoot(tlast.writes[k])
                   /\ tlast.writes[k - 1].ID >= tlast.n
    /\ RootMoved =>
           /\ tlast.err = "nil"
           /\ nodeKind(tlast.writes[Len(tlast.writes)]) = kindMeta
           /\ metaRoot(tlast.writes[Len(tlast.writes)]) = rootID
           /\ tfile[1] = tlast.writes[Len(tlast.writes)]

\* An Insert split the root leaf: L, R, the new root and the meta page were
\* written, in this order.
C16_Witness ==
    /\ SplitInsert
    /\ RootMoved
    /\ Len(tlast.writes) = 4
    /\ tlast.writes[1].ID = tlast.root
    /\ tfile[rootID + 1] = tlast.writes[3]

---------------------------------------------------------------------------
\* The (key, rid) pairs a leaf page holds.
Pairs(p) ==
    LET e == leafLeafEntries(p) IN {<<e.keys[i], e.vals[i]>> : i \in DOMAIN e.keys}

\* The keys a leaf page holds, in page order.
LeafKeys(p) == leafLeafEntries(p).keys

\* The Insert that is just ending wrote to a leaf: old is that leaf as it
\* was, all its keys with the new one in place.
LeafStep(split) ==
    LET w == tlast'.writes
        old == tfile[w[1].ID + 1]
        all == SortedSeq(Range(LeafKeys(old)) \cup {tlast'.key})
        m == Len(all) \div 2
    IN  /\ nodeKind(old) = kindLeaf
        /\ w[1].ID < Len(tfile)
        /\ nodeKind(w[1]) = kindLeaf
        /\ split = (Len(LeafKeys(old)) + 1 > leafCapacity)
        /\ IF ~split
           THEN /\ Len(w) = 1
                /\ LeafKeys(w[1]) = all
                /\ Pairs(w[1]) = Pairs(old) \cup {<<tlast'.key, tlast'.rid>>}
           ELSE /\ w[2].ID = Len(tfile)
                /\ nodeKind(w[2]) = kindLeaf
                /\ LeafKeys(w[1]) = SubSeq(all, 1, m)
                /\ LeafKeys(w[2]) = SubSeq(all, m + 1, Len(all))
                /\ LeafKeys(w[1]) # <<>> /\ LeafKeys(w[2]) # <<>>
                /\ Pairs(w[1]) \cup Pairs(w[2])
                       = Pairs(old) \cup {<<tlast'.key, tlast'.rid>>}
                /\ \A k \in Range(LeafKeys(w[1])) : k < LeafKeys(w[2])[1]
                /\ tlast'.err = "nil" =>
                       \E i \in DOMAIN internalEntries(w[3]).keys :
                           /\ internalEntries(w[3]).keys[i] = LeafKeys(w[2])[1]
                           /\ internalEntries(w[3]).kids[i] = w[1].ID
                           /\ internalEntries(w[3]).kids[i + 1] = w[2].ID

\* C17  Leaf split (under SpecBTree): a leaf is split exactly when, with the
\* new entry in place, it holds more than leafCapacity entries; with m =
\* floor(len/2) the trimmed leaf L keeps the entries [0, m) and the new leaf
\* R gets [m, len); both are non-empty, together they hold the old entries
\* and the new one with their rids, and the separator handed to the parent
\* is R's first key, greater than every key left in L.
C17_LeafSplit ==
    [][(tlast'.op = "insert" /\ tstate = "open" /\ tlast'.writes # <<>>)
        => LeafStep(Len(tlast'.writes) >= 2)]_vars

\* A full leaf under an internal root was split, the new entry went to the
\* left half, and the parent took the separator.
C17_Witness ==
    /\ SplitInsert
    /\ tlast.err = "nil"
    /\ tlast.root = rootID
    /\ tlast.key \in Range(LeafKeys(tlast.writes[1]))
    /\ Len(LeafKeys(tlast.writes[2])) = (leafCapacity + 1) - (leafCapacity + 1) \div 2

---------------------------------------------------------------------------
RECURSIVE HeightFrom(_, _, _)
\* The number of levels from node id down its first children to a leaf; left
\* bounds the descent.
HeightFrom(f, id, left) ==
    IF left = 0 \/ id < 0 \/ id >= Len(f) THEN 0
    ELSE IF nodeKind(f[id + 1]) # kindInternal THEN 1
    ELSE 1 + HeightFrom(f, internalEntries(f[id + 1]).kids[1], left - 1)

Height(f, root) == HeightFrom(f, root, Len(f))

\* The Insert that is just ending found the root unable to take one more
\* entry: the root is the full leaf it writes first, or a full internal node
\* it updates.
RootOverflows ==
    \/ /\ Len(tlast'.writes) >= 2
       /\ tlast'.writes[1].ID = rootID
    \/ \E i \in DOMAIN tlast'.writes :
           Overflows(i) /\ tlast'.writes[i].ID = rootID

\* The ids of the pages that differ between the file before and after the
\* step, pages added included.
Modified ==
    {id \in 0..(Len(tfile') - 1) : id >= Len(tfile) \/ tfile'[id + 1] # tfile[id + 1]}

\* What C18 wants of a root split: sib is the write of the root's new
\* sibling.
RootGrows ==
    /\ tlast'.err = "nil"
    /\ rootID' >= Len(tfile)
    /\ rootID' = Len(tfile') - 1
    /\ nodeKind(tfile'[rootID' + 1]) = kindInternal
    /\ metaRoot(tfile'[1]) = rootID'
    /\ Height(tfile', rootID') = Height(tfile, rootID) + 1
    /\ \E sib \in DOMAIN tlast'.writes :
           LET new == internalEntries(tfile'[rootID' + 1])
               R == tlast'.writes[sib]
           IN  /\ R.ID >= Len(tfile)
               /\ nodeKind(R) = nodeKind(tfile[rootID + 1])
               /\ new.kids = <<rootID, R.ID>>
               /\ Len(new.keys) = 1
               /\ nodeKind(R) = kindLeaf => new.keys[1] = LeafKeys(R)[1]
               /\ nodeKind(R) = kindInternal =>
                      /\ new.keys[1] \notin Range(internalEntries(R).keys)
                      /\ \A k \in Range(internalEntries(R).keys) : new.keys[1] < k
    /\ Modified = {tlast'.writes[i].ID : i \in DOMAIN tlast'.writes}
    /\ Cardinality(Modified) = 2 * Height(tfile, rootID) + 2

\* C18  Root growth (under SpecBTree): when the node that splits is the
\* current root, a new internal page is allocated whose first child is the
\* old root, whose only key is the promoted separator and whose only right
\* child is the new sibling; the meta page's aux and t.rootID are set to the
\* new page's id, the height grows by exactly one, and no page is modified
\* but the split nodes, the new root and the meta page.
C18_RootGrowth ==
    [][(tlast'.op = "insert" /\ tstate = "open" /\ RootOverflows)
        => RootGrows]_vars

\* The same for a root that is a leaf.
C18_LeafRootGrowth ==
    [][(tlast'.op = "insert" /\ tstate = "open" /\ RootOverflows
        /\ nodeKind(tfile[rootID + 1]) = kindLeaf) => RootGrows]_vars

---------------------------------------------------------------------------
RECURSIVE SearchPath(_, _, _, _)
\* The ids of the internal nodes a descent from node id guided by key
\* visits; left bounds the descent.
SearchPath(f, id, key, left) ==
    IF left = 0 \/ id < 0 \/ id >= Len(f) THEN {}
    ELSE IF nodeKind(f[id + 1]) # kindInternal THEN {}
    ELSE LET e == internalEntries(f[id + 1])
             below == {i \in DOMAIN e.keys : e.keys[i] <= key}
         IN  {id} \cup SearchPath(f, e.kids[Cardinality(below) + 1], key, left - 1)

\* a with v put in at position i, counted from 0.
PutIn(a, i, v) == SubSeq(a, 1, i) \o <<v>> \o SubSeq(a, i + 1, Len(a))

\* The Insert that is just ending split the leaf L, not the root, into L and
\* R: what C19 wants of the search for L's parent and of the update of it.
ParentStep ==
    LET L == tlast'.writes[1]
        R == tlast'.writes[2]
        sep == LeafKeys(R)[1]
    IN  /\ tlast'.err \in {"nil", "panic"}
        /\ Len(tlast'.writes) >= 3
        /\ \E pid \in SearchPath(tfile, rootID, sep, Len(tfile)) :
               LET old == internalEntries(tfile[pid + 1])
                   new == internalEntries(tfile'[pid + 1])
               IN  \E idx \in 0..(Len(old.kids) - 1) :
                       /\ old.kids[idx + 1] = L.ID
                       /\ tlast'.writes[3].ID = pid
                       /\ LET keys == PutIn(old.keys, idx, sep)
                              kids == PutIn(old.kids, idx + 1, R.ID)
                          IN  IF tlast'.err = "nil"
                              THEN new.keys = keys /\ new.kids = kids
                              ELSE /\ Len(keys) > internalCapacity
                                   /\ new.keys = SubSeq(keys, 1, Len(new.keys))
                                   /\ new.kids = SubSeq(kids, 1, Len(new.kids))

\* C19  Parent search (under SpecBTree): when a node L that is not the root
\* is split, in a tree built by Insert alone, the descent from the root
\* guided by the promoted separator reaches the internal node that has L
\* among its children, never a leaf (ErrCorruption); the separator is put
\* in at key position idx of that node and the new sibling at child
\* position idx + 1, idx being L's position among the children.
C19_ParentSearch ==
    [][(/\ tlast'.op = "insert"
        /\ tstate = "open"
        /\ Len(tlast'.writes) >= 2
        /\ tlast'.writes[1].ID # rootID) => ParentStep]_vars

\* A leaf that is the last of three children was split and its parent, the
\* root, took the separator as its last key.
C19_Witness ==
    /\ SplitInsert
    /\ tlast.err = "nil"
    /\ tlast.writes[1].ID # tlast.root
    /\ tlast.writes[3].ID = rootID
    /\ LET e == internalEntries(tfile[rootID + 1])
       IN  /\ Len(e.kids) = internalCapacity + 1
           /\ e.kids[internalCapacity] = tlast.writes[1].ID
           /\ e.kids[internalCapacity + 1] = tlast.writes[2].ID
           /\ e.keys[internalCapacity] = LeafKeys(tlast.writes[2])[1]

---------------------------------------------------------------------------
\* Page p of the index file is a well-formed node: a leaf with room for its
\* entries, an internal node with at least one key, room for its keys and
\* one child more than keys, or, as page 0 and nowhere else, the meta page.
WellFormed(p) ==
    /\ nodeKind(p) \in {kindMeta, kindInternal, kindLeaf}
    /\ nodeKind(p) = kindMeta <=> p.ID = 0
    /\ nodeKind(p) = kindLeaf =>
           /\ nodeHdrSize + p.count * leafEntrySize <= IndexPayloadSize
           /\ Len(p.keys) = p.count /\ Len(p.vals) = p.count
    /\ nodeKind(p) = kindInternal =>
           /\ p.count >= 1
           /\ nodeHdrSize + internalFirstKid + p.count * internalEntSize
                  <= IndexPayloadSize
           /\ Len(p.keys) = p.count
           /\ Len(p.kids) = p.count + 1

\* C20  Node well-formedness on disk (under SpecBTree): after every
\* completed operation of the index every leaf page holds at most
\* leafCapacity entries, every internal page holds at least one and at most
\* internalCapacity keys and exactly count + 1 child ids, and page 0 is the
\* only meta page.
C20_WellFormedNodes ==
    tstate \in {"open", "closed"} =>
        \A i \in DOMAIN tfile : tfile[i].ID = i - 1 /\ WellFormed(tfile[i])

\* The file holds full leaves and a full internal node, all well-formed.
C20_Witness ==
    /\ tstate = "open"
    /\ tlast.op = "insert"
    /\ \E i \in DOMAIN tfile :
           nodeKind(tfile[i]) = kindInternal /\ tfile[i].count = internalCapacity
    /\ \E i \in DOMAIN tfile :
           nodeKind(tfile[i]) = kindLeaf /\ tfile[i].count = leafCapacity

---------------------------------------------------------------------------
RECURSIVE LeafDepths(_, _, _, _)
\* The depths, counted from d at node id, of the leaves below node id; a
\* child that is no node of the file counts as depth 0; left bounds the
\* descent.
LeafDepths(f, id, d, left) ==
    IF left = 0 \/ id < 0 \/ id >= Len(f) THEN {0}
    ELSE IF nodeKind(f[id + 1]) = kindLeaf THEN {d}
    ELSE IF nodeKind(f[id + 1]) # kindInternal THEN {0}
    ELSE UNION {LeafDepths(f, internalEntries(f[id + 1]).kids[i], d + 1, left - 1) :
                    i \in 1..(f[id + 1].count + 1)}

\* All leaves below the root are at one depth, the height of the tree.
Balanced == LeafDepths(tfile, rootID, 1, Len(tfile)) = {Height(tfile, rootID)}

\* C21  Balance (under SpecBTree): after any sequence of Inserts all leaves
\* reachable from the root are at the same depth; the height changes only
\* in an Insert that splits the root, and then by exactly one.
C21_Balance ==
    /\ [](Len(tfile) > 0 => Balanced)
    /\ [][(tlast'.op = "insert" /\ tstate = "open"
           /\ Height(tfile', rootID') # Height(tfile, rootID))
          => /\ RootOverflows
             /\ Height(tfile', rootID') = Height(tfile, rootID) + 1]_vars

\* The tree has grown to two levels and its root has three leaves.
C21_Witness ==
    /\ tstate = "open"
    /\ Height(tfile, rootID) = 2
    /\ tfile[rootID + 1].count = internalCapacity
    /\ Balanced

---------------------------------------------------------------------------
RECURSIVE Descent(_, _, _, _)
\* The ids of the nodes a descent from node id guided by key reads, in
\* order, the leaf it ends at included; left bounds the descent.
Descent(f, id, key, left) ==
    IF left = 0 \/ id < 0 \/ id >= Len(f) THEN <<>>
    ELSE IF nodeKind(f[id + 1]) # kindInternal THEN <<id>>
    ELSE LET e == internalEntries(f[id + 1])
             below == {i \in DOMAIN e.keys : e.keys[i] <= key}
         IN  <<id>> \o Descent(f, e.kids[Cardinality(below) + 1], key, left - 1)

\* The descent for key ends at a leaf after at most height reads, every
\* node read lying strictly deeper than the one before: the levels below it
\* are one fewer.
DescentEnds(key) ==
    LET path == Descent(tfile, rootID, key, Len(tfile))
    IN  /\ findLeaf(tfile, rootID, key).err = "nil"
        /\ BTreeGet(tfile, rootID, key).err = "nil"
        /\ path # <<>>
        /\ Len(path) <= Height(tfile, rootID)
        /\ nodeKind(tfile[path[Len(path)] + 1]) = kindLeaf
        /\ findLeaf(tfile, rootID, key).page.ID = path[Len(path)]
        /\ \A i \in 1..(Len(path) - 1) :
               /\ HeightFrom(tfile, path[i + 1], Len(tfile))
                      = HeightFrom(tfile, path[i], Len(tfile)) - 1
               /\ \A j \in 1..i : path[j] # path[i + 1]

\* The pages the Insert that is just ending has allocated as siblings of
\* nodes it split: one for every level the split went through.
Siblings ==
    {tlast'.writes[i].ID : i \in DOMAIN tlast'.writes} \ (0..Len(tfile) - 1 \cup {rootID'})

\* C22  Termination (under SpecBTree): on every tree reachable from a fresh
\* Open by Inserts the descent of Get and of Insert ends: every step moves
\* to a node strictly deeper and a leaf is reached after at most height
\* steps; and the split propagation of an Insert ends after at most height
\* levels.
C22_Termination ==
    /\ [](Len(tfile) > 0 => \A key \in TreeKeys : DescentEnds(key))
    /\ [][(tlast'.op = "insert" /\ tstate = "open")
          => /\ tlast'.err \in {"nil", "ErrDupKey", "panic"}
             /\ Cardinality(Siblings) <= Height(tfile, rootID)
             /\ Len(tlast'.writes) <= 2 * Height(tfile, rootID) + 2]_vars

\* In a tree of two levels an Insert has split a leaf and the descent for
\* its key goes through the root to the leaf that holds it.
C22_Witness ==
    /\ tstate = "open"
    /\ SplitInsert
    /\ tlast.err = "nil"
    /\ tlast.root = rootID
    /\ Len(Descent(tfile, rootID, tlast.key, Len(tfile))) = 2
    /\ BTreeGet(tfile, rootID, tlast.key).found

---------------------------------------------------------------------------
\* id names a page of the file that is a leaf or an internal node.
NamesNode(f, id) ==
    /\ id >= 0 /\ id < Len(f)
    /\ nodeKind(f[id + 1]) \in {kindLeaf, kindInternal}

RECURSIVE Reachable(_, _, _)
\* The ids of the internal nodes reachable from node id through child ids
\* that name nodes; left bounds the descent.
Reachable(f, id, left) ==
    IF left = 0 \/ ~NamesNode(f, id) \/ nodeKind(f[id + 1]) # kindInternal THEN {}
    ELSE {id} \cup UNION {Reachable(f, internalEntries(f[id + 1]).kids[i], left - 1) :
                              i \in 1..(f[id + 1].count + 1)}

\* Below root no child id dangles.
NoDangling(f, root) ==
    /\ NamesNode(f, root)
    /\ \A id \in Reachable(f, root, Len(f)) :
           \A c \in Range(internalEntries(f[id + 1]).kids) : NamesNode(f, c)

\* C23  No dangling references (under SpecBTreeIO, whose failed and
\* panicked states are the states between two page writes of an Insert):
\* once the bootstrap has completed, in every state, those within a leaf
\* split, an internal split and a root growth included, the root pointer of
\* the meta page and every child id of an internal page reachable from that
\* root name a page that is in the file and is a leaf or an internal node.
C23_NoDangling ==
    Len(tfile) > 0 =>
        /\ nodeKind(tfile[1]) = kindMeta
        /\ NoDangling(tfile, metaRoot(tfile[1]))
        /\ NoDangling(tfile, rootID)

\* An Insert stopped between the write of the new leaf R and the update of
\* the parent, in a tree of two levels.
C23_Witness ==
    /\ tstate = "failed"
    /\ Len(tlast.writes) = 2
    /\ Len(tfile) = tlast.n + 1
    /\ nodeKind(tfile[rootID + 1]) = kindInternal
    /\ tlast.n \notin Range(internalEntries(tfile[rootID + 1]).kids)

---------------------------------------------------------------------------
\* The ids allocPage has returned in the Insert that is just ending, in
\* order: those of the pages it wrote that were not in the file, and, when
\* it panicked, the page count it ended with: the only panic of an Insert
\* is in writeInternal on the page allocPage has just returned
\* (part_000:221-225).
Allocations ==
    LET fresh == SortedSeq({tlast'.writes[i].ID : i \in DOMAIN tlast'.writes}
                               \ (0..Len(tfile) - 1))
    IN  IF tlast'.err = "panic" THEN Append(fresh, Len(tfile')) ELSE fresh

\* The (page, position) pairs of the file at which id is stored as a child.
Parents(f, id) ==
    {<<p, i>> \in (1..Len(f)) \X (1..(internalCapacity + 1)) :
        /\ nodeKind(f[p]) = kindInternal
        /\ i <= f[p].count + 1
        /\ internalEntries(f[p]).kids[i] = id}

\* The clauses of C24 that do not depend on every allocated page being
\* written: ids are the page count at the time of the allocation, so no
\* page of the file is overwritten by an allocation, the page count never
\* decreases, and no page has two parents.
AppendOnly ==
    /\ \A k \in DOMAIN Allocations : Allocations[k] = Len(tfile) + k - 1
    /\ Len(tfile') >= Len(tfile)
    /\ \A id \in 0..(Len(tfile) - 1) :
           tfile'[id + 1] # tfile[id + 1]
               => \E i \in DOMAIN tlast'.writes :
                      /\ tlast'.writes[i].ID = id
                      /\ tlast'.writes[i] = tfile'[id + 1]
    /\ \A id \in 1..(Len(tfile') - 1) : Cardinality(Parents(tfile', id)) <= 1

\* Every page allocated is in the file when the Insert ends, so that the
\* next allocation returns another id.
AllWritten == \A k \in DOMAIN Allocations : Allocations[k] < Len(tfile')

\* C24  Append-only allocation (under SpecBTree): every page the index
\* allocates gets the page count of the file at that time as its id and is
\* written before the next allocation, so no two allocations return the
\* same id; no allocation overwrites a page of the file, the page count
\* never decreases, and every page but the meta page is the child of at
\* most one parent.
C24_AppendOnly ==
    [][(tlast'.op = "insert" /\ tstate = "open") => AppendOnly /\ AllWritten]_vars

\* The same without the clause that every allocated page is written.
C24_ExceptUnwritten ==
    [][(tlast'.op = "insert" /\ tstate = "open") => AppendOnly]_vars

---------------------------------------------------------------------------
RECURSIVE SumStored(_, _)
\* The total length of the records stored by the first n inserts tried.
SumStored(log, n) ==
    IF n = 0 THEN 0
    ELSE SumStored(log, n - 1) + (IF log[n].err = "nil" THEN log[n].len ELSE 0)

\* The byte range [lo, hi) of the record slot i of p points at.
SlotRange(p, i) ==
    [lo |-> getSlot(p, i).off, hi |-> getSlot(p, i).off + getSlot(p, i).ln]

\* The layout of an initialized slotted page.
Layout(p) ==
    LET h == header(p)
    IN  /\ spHeaderSize <= h.fs /\ h.fs <= h.fe /\ h.fe <= PayloadSize
        /\ h.fe = PayloadSize - slotEntrySize * h.sc
        /\ \A i \in 0..(h.sc - 1) :
               /\ getSlot(p, i).err = "nil"
               /\ spHeaderSize <= SlotRange(p, i).lo
               /\ SlotRange(p, i).hi <= h.fs
        /\ \A i, j \in 0..(h.sc - 1) :
               i < j => \/ SlotRange(p, i).hi <= SlotRange(p, j).lo
                        \/ SlotRange(p, j).hi <= SlotRange(p, i).lo

\* C25  Slotted layout invariant (under SpecSlotted): a page reached from a
\* zeroed page by InitIfFresh, Insert and Delete in any order is either
\* still the zeroed page, on which InitIfFresh has not run, or has
\* 6 <= freeStart <= freeEnd <= PayloadSize,
\* freeEnd = PayloadSize - 4 * slotCount, freeStart = 6 + the total length
\* of the records stored, every slot's range [offset, offset + length)
\* inside [6, freeStart), the ranges of distinct slots disjoint, and hence
\* no record byte in the slot directory [freeEnd, PayloadSize).
C25_Layout ==
    IF Initialized(mpage)
    THEN /\ Layout(mpage)
         /\ header(mpage).fs = spHeaderSize + SumStored(mlog, Len(mlog))
    ELSE mpage.Data = NewPage(0).Data /\ SumStored(mlog, Len(mlog)) = 0

\* Two records of one byte are on the page and the first has been deleted.
C25_Witness ==
    /\ Initialized(mpage)
    /\ header(mpage).sc = 2
    /\ SumStored(mlog, Len(mlog)) = 2
    /\ getSlot(mpage, 0).ln = 0
    /\ getSlot(mpage, 1).ln = 1
    /\ getSlot(mpage, 1).off = spHeaderSize + 1

---------------------------------------------------------------------------
\* The number of payload bytes of p that are not in the header [0, 6), not
\* in the record data [6, freeStart) and not in the slot directory
\* [freeEnd, PayloadSize).
Unused(p) ==
    Cardinality({b \in 0..(PayloadSize - 1) :
                    /\ b >= spHeaderSize
                    /\ b >= header(p).fs
                    /\ b < header(p).fe})

\* The last operation was an Insert of a record a slot can describe, on a
\* page that InitIfFresh had run on.
InsertTried ==
    /\ mlast.op = "insert"
    /\ mlast.len <= MaxUint16
    /\ Initialized(mlast.before)

\* C26  Free-space accounting (under SpecSlotted): on an initialized page
\* the payload bytes outside the header, the record data and the slot
\* directory number freeEnd - freeStart - 4 * slotCount, and an Insert of a
\* record of n <= 65535 bytes fails with ErrNoSpace exactly when fewer than
\* n + 4 bytes are unused in that sense: it succeeds whenever
\* freeEnd - freeStart >= n + 4.
C26_Accounting ==
    /\ Initialized(mpage) => Unused(mpage) = freeSpace(mpage)
    /\ InsertTried =>
           /\ mlast.err = "ErrNoSpace"
                  <=> Unused(mlast.before) < mlast.len + slotEntrySize
           /\ header(mlast.before).fe - header(mlast.before).fs
                  >= mlast.len + slotEntrySize => mlast.err = "nil"

\* What the code keeps instead: the unused bytes are freeEnd - freeStart,
\* and an Insert fails with ErrNoSpace exactly when that less another
\* 4 * slotCount is under n + 4.
C26_DirectoryCountedTwice ==
    /\ Initialized(mpage) =>
           /\ Unused(mpage) = header(mpage).fe - header(mpage).fs
           /\ freeSpace(mpage) = Unused(mpage) - slotEntrySize * header(mpage).sc
    /\ InsertTried =>
           /\ mlast.err \in {"nil", "ErrNoSpace"}
           /\ mlast.err = "ErrNoSpace"
                  <=> Unused(mlast.before)
                          - slotEntrySize * header(mlast.before).sc
                      < mlast.len + slotEntrySize

---------------------------------------------------------------------------
\* C27  freeSpace is never negative (under SpecSlotted): on every page
\* reached from a zeroed page by InitIfFresh followed by Inserts and Deletes
\* in any order, freeSpace = freeEnd - freeStart - 4 * slotCount is >= 0.
C27_NonNegative == Initialized(mpage) => freeSpace(mpage) >= 0

\* What holds instead: freeSpace is never under -4, and the bytes between
\* freeStart and freeEnd are never fewer than none.
C27_AtLeastMinusEntry ==
    Initialized(mpage) =>
        /\ freeSpace(mpage) >= 0 - slotEntrySize
        /\ header(mpage).fe - header(mpage).fs >= 0
        /\ freeSpace(mpage) < 0 =>
               /\ mlog # <<>>
               /\ header(mpage).sc > 0

---------------------------------------------------------------------------
\* The page the last Delete named, as read from file f.
Named(f) == ReadPage(f, hlast'.rid.PageID).page

\* Every page of the file but the one the Delete named is as it was.
OtherPagesKept ==
    /\ Len(hfile') = Len(hfile)
    /\ \A id \in 0..(pageCount(hfile) - 1) :
           id # hlast'.rid.PageID => PageBytes(hfile', id) = PageBytes(hfile, id)

\* The step is a Delete of slot s of a page of the file: with s under the
\* page's slot count it succeeds and the page differs from what it was in the
\* two length bytes of slot s only, which are 0; otherwise it fails with
\* ErrBadSlotID and writes nothing.
DeleteFrame ==
    LET s == hlast'.rid.SlotID
    IN  IF s < header(Named(hfile)).sc
        THEN /\ hlast'.err = "nil"
             /\ Named(hfile').Data =
                    Poke(Named(hfile).Data, slotPos(s) + 2, <<0, 0>>)
             /\ Named(hfile').ID = Named(hfile).ID
             /\ Named(hfile').DataSize = Named(hfile).DataSize
             /\ getSlot(Named(hfile'), s) =
                    [err |-> "nil", off |-> getSlot(Named(hfile), s).off, ln |-> 0]
             /\ header(Named(hfile')) = header(Named(hfile))
             /\ \A i \in 0..(header(Named(hfile)).sc - 1) :
                    i # s => getSlot(Named(hfile'), i) = getSlot(Named(hfile), i)
             /\ getSlot(Named(hfile), s).ln = 0 => hfile' = hfile
             /\ OtherPagesKept
        ELSE /\ hlast'.err = "ErrBadSlotID"
             /\ hlast'.writes = <<>>
             /\ hfile' = hfile

\* C28  Delete frame (under SpecHeap): a Delete of slot s < slotCount of a
\* page of the heap file changes only the length field of slot s, to 0; the
\* slot's offset, slotCount, freeStart, freeEnd, every record byte, every
\* other slot entry and every other page are as before, and a Delete of a
\* slot already deleted succeeds and leaves the file as it was; with
\* s >= slotCount it fails with ErrBadSlotID and the file is not written.
C28_DeleteFrame ==
    [][(hlast'.op = "delete" /\ hlast'.rid.PageID < pageCount(hfile))
           => DeleteFrame]_vars

\* The first of two records of one page has just been deleted; the second
\* can still be read.
C28_Witness ==
    /\ hlast.op = "delete" /\ hlast.err = "nil"
    /\ hlast.rid.SlotID = 0
    /\ hlast.writes = <<hlast.rid.PageID>>
    /\ \E p \in {ReadPage(hfile, hlast.rid.PageID).page} :
           /\ header(p).sc = 2
           /\ getSlot(p, 0).ln = 0 /\ getSlot(p, 0).off = spHeaderSize
           /\ getSlot(p, 1).ln > 0

---------------------------------------------------------------------------
\* The longest record a fresh page takes: freeSpace of a fresh page less the
\* slot entry.
LongestRecord == PayloadSize - spHeaderSize - slotEntrySize

\* Lengths tried on the file of every state: empty, one byte, the longest a
\* page takes, one more, the longest a slot can describe, and one more.
ProbeLens == {0, 1, LongestRecord, LongestRecord + 1, MaxUint16, MaxUint16 + 1}

\* What Insert of a record of n bytes does to the file as it is.
Probe(n) == HeapInsert(hfile, [i \in 1..n |-> 255])

\* C29 as stated (under SpecHeap): an Insert of a record of at most 65535
\* bytes never returns ErrNoSpace, and an Insert that returns an error has
\* left the file as it was.
C29_NeverNoSpace ==
    /\ \A n \in ProbeLens : n <= MaxUint16 => Probe(n).err # "ErrNoSpace"
    /\ \A n \in ProbeLens : Probe(n).err # "nil" => Probe(n).file = hfile
    /\ (hlast.op = "insert" /\ Len(hlast.rec) <= MaxUint16)
           => hlast.err # "ErrNoSpace"

\* An Insert of a record of n bytes, on the file as it is: up to the longest
\* record a page takes it succeeds, in a new page at the end of the file
\* when no page of the file has room; a longer one fails with ErrNoSpace, or
\* ErrDataTooLarge over 65535 bytes, the file untouched.
Absorbed(n) ==
    IF n <= LongestRecord
    THEN /\ Probe(n).err = "nil"
         /\ PagesWithRoom(hfile, n + slotEntrySize) = {} =>
                /\ Probe(n).rid = [PageID |-> pageCount(hfile), SlotID |-> 0]
                /\ pageCount(Probe(n).file) = pageCount(hfile) + 1
                /\ SubSeq(Probe(n).file, 1, Len(hfile)) = hfile
                /\ n > 0 => HeapGet(Probe(n).file, Probe(n).rid)
                                = [err |-> "nil", data |-> [i \in 1..n |-> 255]]
    ELSE /\ Probe(n).err = IF n <= MaxUint16 THEN "ErrNoSpace"
                           ELSE "ErrDataTooLarge"
         /\ Probe(n).file = hfile
         /\ Probe(n).writes = <<>>

\* What the code keeps instead of C29 (under SpecHeap): when no page of
\* the file has room for a record of at most PayloadSize - 10 bytes, Insert stores it in a new page at the end of the
\* file, so Insert of such a record never fails; a longer record, which no
\* page can take, gets ErrNoSpace up to 65535 bytes and ErrDataTooLarge
\* beyond; and an Insert that returns one of these errors leaves the file
\* byte-identical, its page count unchanged.
C29_Absorbed ==
    /\ [](\A n \in ProbeLens : Absorbed(n))
    /\ [][hlast'.op = "insert" =>
             /\ hlast'.err \in {"nil", "ErrNoSpace"}
             /\ hlast'.err = "ErrNoSpace" <=> Len(hlast'.rec) > LongestRecord
             /\ hlast'.err # "nil" => hfile' = hfile]_vars

---------------------------------------------------------------------------
\* Get fails with ErrSlotDeleted for rid and Scan does not visit it.
Tombstoned(rid) ==
    /\ HeapGet(hfile, rid) = [err |-> "ErrSlotDeleted", data |-> <<>>]
    /\ \A k \in DOMAIN ScanVisits.visits : ScanVisits.visits[k].rid # rid
    /\ getSlot(ReadPage(hfile, rid.PageID).page, rid.SlotID).ln = 0

\* C30  Zero-length records (under SpecHeap): an Insert of a zero-length
\* record succeeds, takes the next slot of its page and returns its rid;
\* Get of that rid fails with ErrSlotDeleted and Scan never visits it,
\* exactly as for a record that was deleted.
C30_ZeroLength ==
    /\ (hlast.op = "insert" /\ hlast.rec = <<>>) =>
           /\ hlast.err = "nil"
           /\ hlog[Len(hlog)] = [rid |-> hlast.rid, rec |-> <<>>]
           /\ header(ReadPage(hfile, hlast.rid.PageID).page).sc
                  = hlast.rid.SlotID + 1
    /\ \A i \in DOMAIN hlog : hlog[i].rec = <<>> => Tombstoned(hlog[i].rid)
    /\ \A rid \in hdeleted : Tombstoned(rid)
    /\ ScanVisits.err = "nil"

\* The file holds a record that was deleted, a zero-length record that was
\* not, and a record that Scan visits.
C30_Witness ==
    \E i, j, k \in DOMAIN hlog :
        /\ hlog[i].rec # <<>> /\ hlog[i].rid \in hdeleted
        /\ hlog[j].rec = <<>> /\ hlog[j].rid \notin hdeleted
        /\ hlog[k].rec # <<>> /\ hlog[k].rid \notin hdeleted
        /\ \E v \in DOMAIN ScanVisits.visits :
               ScanVisits.visits[v] = [rid |-> hlog[k].rid, data |-> hlog[k].rec]

---------------------------------------------------------------------------
\* The number of the Insert that returned rid.
Inserted(rid) == CHOOSE i \in DOMAIN hlog : hlog[i].rid = rid

\* rid a comes before rid b in the file.
Before(a, b) ==
    \/ a.PageID < b.PageID
    \/ a.PageID = b.PageID /\ a.SlotID < b.SlotID

\* A visitor that returns false at its call number keep + 1 is called with
\* the first keep + 1 of what one that always returns true is called with,
\* and with nothing after that; Scan returns nil.
StopsAtFalse ==
    \A keep \in 0..Len(hlog) :
        HeapScan(hfile, keep) =
            [err |-> "nil",
             visits |-> SubSeq(ScanVisits.visits, 1,
                               Min(keep + 1, Len(ScanVisits.visits)))]

\* C31 as stated (under SpecHeap): Scan visits the records in the order in
\* which they were inserted, and stops without error once the visitor
\* returns false.
C31_InsertionOrder ==
    /\ \A j, k \in DOMAIN ScanVisits.visits :
           j < k => Inserted(ScanVisits.visits[j].rid)
                        < Inserted(ScanVisits.visits[k].rid)
    /\ StopsAtFalse

\* C31  Scan order (under SpecHeap): after any inserts and deletes Scan
\* visits the surviving non-empty records in the order of their rids, by
\* page id and within a page by slot id, which within one page is the order
\* in which they were inserted; once the visitor returns false no further
\* record is visited and Scan returns without error.
C31_ScanOrder ==
    /\ VisitedExactly(Expected(NonEmptyRecord))
    /\ \A j, k \in DOMAIN ScanVisits.visits :
           j < k =>
               /\ Before(ScanVisits.visits[j].rid, ScanVisits.visits[k].rid)
               /\ ScanVisits.visits[j].rid.PageID = ScanVisits.visits[k].rid.PageID
                      => Inserted(ScanVisits.visits[j].rid)
                             < Inserted(ScanVisits.visits[k].rid)
    /\ StopsAtFalse

\* A record was deleted, and of the two that Scan visits the one in page 0
\* was inserted after the one in page 1.
C31_Witness ==
    /\ \E i \in DOMAIN hlog : Len(hlog[i].rec) > 0 /\ hlog[i].rid \in hdeleted
    /\ Len(ScanVisits.visits) = 2
    /\ ScanVisits.visits[1].rid.PageID = 0
    /\ ScanVisits.visits[2].rid.PageID = 1
    /\ Inserted(ScanVisits.visits[1].rid) > Inserted(ScanVisits.visits[2].rid)

---------------------------------------------------------------------------
\* The keys Get finds in the tree (f, root).
Held(f, root) == {k \in TreeKeys : BTreeGet(f, root, k).found}

\* The keys Get found before the step and does not find after it, through
\* the root of the handle and through the root the meta page names.
LostInMemory == Held(tfile, rootID) \ Held(tfile', rootID')

LostOnDisk ==
    Held(tfile, metaRoot(tfile[1])) \ Held(tfile', metaRoot(tfile'[1]))

\* The file after the step is the file before it with the pages written,
\* each at its place, those past the end appended: nothing is taken back.
RECURSIVE WritesApplied(_, _, _)
WritesApplied(f, w, k) ==
    IF k > Len(w) THEN f ELSE WritesApplied(writeNode(f, w[k]), w, k + 1)

\* The keys the trimmed leaf, the first page written, no longer holds.
MovedOut ==
    IF tlast'.writes = <<>> THEN {}
    ELSE KeysOf(tfile, tlast'.writes[1].ID)
             \ Range(leafLeafEntries(tlast'.writes[1]).keys)

\* The step is an Insert that returned the error of a page write.
FailedInsert == tlast'.op = "insert" /\ tlast'.err = "EIO"

\* C32  Partial split on I/O failure (under SpecBTreeIO): an Insert during
\* which a page write fails returns that error and takes nothing back, the
\* file keeping every page that was written; keys Get found before can then
\* be missing, which only happens once the trimmed leaf L has been written:
\* when the Insert stops after L or after L and R, or after the new root
\* above a root leaf L and before the meta page, the keys moved out of L are
\* the ones missing; an Insert that fails before its first page write leaves
\* the file unchanged.
C32_PartialSplit ==
    [][/\ FailedInsert =>
              /\ tstate' = "failed"
              /\ rootID' = rootID
              /\ tins' = tins
              /\ tfile' = WritesApplied(tfile, tlast'.writes, 1)
              /\ tlast'.writes = <<>> => tfile' = tfile
              /\ (LostOnDisk # {} \/ LostInMemory # {}) =>
                     /\ tlast'.writes # <<>>
                     /\ nodeKind(tlast'.writes[1]) = kindLeaf
                     /\ MovedOut # {}
              /\ Len(tlast'.writes) \in {1, 2} =>
                     /\ LostOnDisk = MovedOut
                     /\ LostInMemory = MovedOut
              /\ (Len(tlast'.writes) \in {3, 4}
                  /\ tlast'.writes[1].ID = rootID) =>
                     /\ LostInMemory = MovedOut
                     /\ LostOnDisk = IF Len(tlast'.writes) = 4 THEN {}
                                     ELSE MovedOut
       /\ (tlast'.op = "insert" /\ tlast'.err = "ErrDupKey") =>
              /\ tfile' = tfile
              /\ tlast'.writes = <<>>
      ]_vars

\* The root leaf was being split: L and R were written, the write of the new
\* root failed, and a key inserted before is not found any more, neither
\* through the root of the handle nor through the root of the meta page.
C32_Witness ==
    /\ tstate = "failed"
    /\ tlast.err = "EIO"
    /\ Len(tlast.writes) = 2
    /\ tlast.writes[1].ID = rootID
    /\ metaRoot(tfile[1]) = rootID
    /\ \E k \in DOMAIN tins :
           /\ ~BTreeGet(tfile, rootID, k).found
           /\ k \in Range(LeafKeys(tlast.writes[2]))

---------------------------------------------------------------------------
(* Two goroutines calling HeapFile.Insert on one file, with nothing to      *)
(* keep them apart (heapfile.go has no lock).  A step is one access to the  *)
(* file: the Stat of pageCount, one ReadPage of findPageWithSpace, or the   *)
(* WritePage; what a writer does in memory goes with the access before it.  *)

MaxRaceInserts == 3

\* Record lengths: empty, one byte, and one that no longer fits beside a
\* one byte record.
RaceLens == {0, 1, MidLen}

\* The Inserts begun so far.
Begun == Len(rlog) + Cardinality({w \in Writers : writers[w].pc # "idle"})

\* The record of length n handed to the next Insert: every byte is the
\* number of the Insert.
RaceRecord(n) == [i \in 1..n |-> Begun + 1]

\* findPageWithSpace after its loop test: past the last page it knows of,
\* the writer makes a new page in memory.
Arrive(st) ==
    IF st.id >= st.n
    THEN [st EXCEPT !.pc = "found", !.page = InitIfFresh(NewPage(st.n)),
                    !.read = rclock]
    ELSE [st EXCEPT !.pc = "scan"]

\* What Insert returned, the page it had read or made to put the record in,
\* and when it began, chose that page and returned.
Returned(w, st, err, rid) ==
    [w |-> w, rec |-> st.rec, err |-> err, rid |-> rid, id |-> st.id,
     saw |-> st.page, start |-> st.start, read |-> st.read, wrote |-> rclock]

\* hf.Insert(rec) begins: pageCount.
RBegin(w, rec) ==
    /\ writers[w].pc = "idle"
    /\ Begun < MaxRaceInserts
    /\ writers' = [writers EXCEPT ![w] =
                      Arrive([Idle EXCEPT !.rec = rec, !.n = pageCount(rfile),
                                          !.start = rclock])]
    /\ rclock' = rclock + 1
    /\ UNCHANGED <<rfile, rlog, pvars, hvars, tvars, mvars>>

\* One turn of the loop of findPageWithSpace: ReadPage, InitIfFresh and the
\* test of freeSpace.
RRead(w) ==
    /\ writers[w].pc = "scan"
    /\ \E st \in {writers[w]}, r \in {ReadPage(rfile, writers[w].id)} :
           IF r.err # "nil"
           THEN /\ writers' = [writers EXCEPT ![w] = Idle]
                /\ rlog' = Append(rlog, Returned(w, st, r.err, NoRID))
           ELSE /\ writers' = [writers EXCEPT ![w] =
                       IF freeSpace(InitIfFresh(r.page))
                              >= Len(st.rec) + slotEntrySize
                       THEN [st EXCEPT !.pc = "found",
                                       !.page = InitIfFresh(r.page),
                                       !.read = rclock]
                       ELSE Arrive([st EXCEPT !.id = st.id + 1])]
                /\ rlog' = rlog
    /\ rclock' = rclock + 1
    /\ UNCHANGED <<rfile, pvars, hvars, tvars, mvars>>

\* sp.Insert(rec) on the page held in memory, then WritePage.
RWrite(w) ==
    /\ writers[w].pc = "found"
    /\ \E st \in {writers[w]}, ins \in {SlottedInsert(writers[w].page, writers[w].rec)} :
           IF ins.err # "nil"
           THEN /\ rlog' = Append(rlog, Returned(w, st, ins.err, NoRID))
                /\ rfile' = rfile
           ELSE \E wr \in {WritePage(rfile, ins.page)} :
                    /\ rfile' = wr.file
                    /\ rlog' = Append(rlog,
                           Returned(w, st, wr.err,
                                    IF wr.err = "nil"
                                    THEN [PageID |-> st.id, SlotID |-> ins.slot]
                                    ELSE NoRID))
    /\ writers' = [writers EXCEPT ![w] = Idle]
    /\ rclock' = rclock + 1
    /\ UNCHANGED <<pvars, hvars, tvars, mvars>>

NextRace ==
    \/ \E w \in Writers, n \in RaceLens : RBegin(w, RaceRecord(n))
    \/ \E w \in Writers : RRead(w)
    \/ \E w \in Writers : RWrite(w)

SpecRace == Init /\ [][NextRace]_vars

\* Inserts i and j of the log, j the one that returned later, both stored
\* a record, in the same page, which both had read, with the same content,
\* before i wrote it.
Collide(i, j) ==
    /\ i < j
    /\ rlog[i].err = "nil" /\ rlog[j].err = "nil"
    /\ rlog[i].id = rlog[j].id
    /\ rlog[i].saw = rlog[j].saw
    /\ rlog[j].read < rlog[i].wrote

\* No Insert began before the one before it had returned.
Sequential == \A i, j \in DOMAIN rlog : i < j => rlog[i].wrote < rlog[j].start

\* What a full Scan of the file is called with.
RaceVisits == HeapScan(rfile, Len(rlog)).visits

\* The record of Insert i is nowhere in the file.
Gone(i) == \A k \in DOMAIN RaceVisits : RaceVisits[k].data # rlog[i].rec

\* What C33 says of two Inserts that collide, of which the later is the
\* last that returned; stored tells which later records Get must return.
LostUpdate(stored(_)) ==
    \A i, j \in DOMAIN rlog :
        Collide(i, j) =>
            /\ rlog[i].rid = rlog[j].rid
            /\ (j = Len(rlog) /\ stored(rlog[j].rec)) =>
                   HeapGet(rfile, rlog[j].rid)
                       = [err |-> "nil", data |-> rlog[j].rec]
            /\ (j = Len(rlog) /\ rlog[i].rec # <<>>) => Gone(i)

\* With one Insert at a time no rid is returned twice and every record
\* that is not empty is there.
NoLossInSequence ==
    Sequential =>
        /\ \A i, j \in DOMAIN rlog : i < j => rlog[i].rid # rlog[j].rid
        /\ \A i \in DOMAIN rlog :
               /\ rlog[i].err = "nil"
               /\ rlog[i].rec # <<>> =>
                      HeapGet(rfile, rlog[i].rid)
                          = [err |-> "nil", data |-> rlog[i].rec]

AnyBytes(rec) == TRUE

SomeBytes(rec) == rec # <<>>

\* C33 as stated (under SpecRace): two Inserts that both read the same
\* target page before either wrote it return the same rid, Get of it returns
\* the record of the later writer, whatever its length, and the earlier
\* record is lost; with one Insert at a time this does not happen.
C33_AnyLength == LostUpdate(AnyBytes) /\ NoLossInSequence

\* C33  Lost update under concurrent writers (under SpecRace): two Inserts
\* that both chose the same target page before either wrote it back return
\* the same rid; once the later one has written, Get of that rid returns the
\* later record, if that is not empty, and the earlier record is nowhere in
\* the file; with one Insert at a time no rid is returned twice and no
\* record is lost.
C33_LostUpdate == LostUpdate(SomeBytes) /\ NoLossInSequence

\* Two Inserts of records that are not empty read page 0 before either
\* wrote it, and both have returned.
C33_Witness ==
    /\ Len(rlog) >= 2
    /\ Collide(Len(rlog) - 1, Len(rlog))
    /\ rlog[Len(rlog)].rec # <<>>
    /\ rlog[Len(rlog) - 1].rec # <<>>
    /\ rlog[Len(rlog)].w # rlog[Len(rlog) - 1].w
    /\ rlog[Len(rlog)].rid = [PageID |-> 0, SlotID |-> 1]

---------------------------------------------------------------------------
(* A page file whose stored bytes are not what WritePage left: one byte of  *)
(* a stored page, header or payload, has been changed behind the codec's    *)
(* back.                                                                   *)

\* f.WriteAt([]byte{v}, pageOffset(id) + pos): byte pos of the stored page.
PDamageByte(id, pos, v) ==
    /\ plast.op # "damage"
    /\ id \in DOMAIN pwritten
    /\ v # pfile[pageOffset(id) + pos + 1]
    /\ pfile' = WriteAt(pfile, <<v>>, pageOffset(id) + pos)
    /\ plast' = [op |-> "damage", id |-> id, pos |-> pos, err |-> "nil"]
    /\ UNCHANGED <<pwritten, hvars, tvars, mvars, rvars>>

\* The values a byte is changed to: the least, the greatest, and those about
\* the greatest DataSize a page can have.
DamageBytes == {0, 1, PayloadSize - 1, PayloadSize, PayloadSize + 1,
                ByteMax \div 2, ByteMax}

\* Every byte of the page, but for the top bit of the stored id, which
\* ReadPage only copies: ids stay under 2^31.
PDamage ==
    \E id \in PageIDs, pos \in 0..(PageSize - 1), v \in DamageBytes :
        /\ pos = 3 => v <= ByteMax \div 2
        /\ PDamageByte(id, pos, v)

NextDamage == PFirstWrite \/ PDamage

SpecDamage == Init /\ [][NextDamage]_vars

\* The DataSize field of the stored page id.
StoredSize(id) ==
    Uint16(SubSeq(pfile, pageOffset(id) + 9, pageOffset(id) + 10))

\* C34  ReadPage fails closed on header corruption (under SpecDamage):
\* whatever the stored bytes of a page are, ReadPage returns a page whose
\* recomputed checksum is the stored one, or an error; when the stored
\* DataSize is over PayloadSize it returns ErrChecksumMismatch, and neither
\* a page nor a panic.
C34_FailsClosed ==
    \A id \in DOMAIN pwritten :
        LET r == ReadPage(pfile, id)
        IN  /\ r.err \in {"nil", "ErrChecksumMismatch"}
            /\ r.err = "nil" => ComputeChecksum(r.page) = r.page.Checksum
            /\ StoredSize(id) > PayloadSize => r.err = "ErrChecksumMismatch"

\* What the code keeps instead: ReadPage panics exactly when the stored
\* DataSize is over PayloadSize, and otherwise returns a page whose
\* recomputed checksum is the stored one, or ErrChecksumMismatch.
C34_PanicsOnSize ==
    \A id \in DOMAIN pwritten :
        LET r == ReadPage(pfile, id)
        IN  IF StoredSize(id) > PayloadSize
            THEN r.err = "panic"
            ELSE /\ r.err \in {"nil", "ErrChecksumMismatch"}
                 /\ r.err = "nil" =>
                        /\ ComputeChecksum(r.page) = r.page.Checksum
                        /\ r.page.DataSize = StoredSize(id)

=====
